---- MODULE Spec2Model ----
(***************************************************************************)
(* Model of the Review II scraper (review2/scraper).                       *)
(*                                                                         *)
(*   Spec            one run of ReviewScraper.run_dry_run / run_full_scrape*)
(*                   (scraper_main.py) over SessionManager.make_request,   *)
(*                   RetryHandler.retry_on_failure, Parser.parse_page and  *)
(*                   OutputHandler                                         *)
(*   SpecDry         one run of run_dry_run over URL lists longer than its *)
(*                   sample                                                *)
(*   SpecRetry       one call of a function wrapped by                     *)
(*                   RetryHandler.retry_on_failure                         *)
(*   SpecScrape      one call of ReviewScraper.scrape_url, fetch by fetch  *)
(*   SpecBreakerSeq  calls, one after the other, of a function wrapped by  *)
(*                   RetryHandler.circuit_breaker                          *)
(*   SpecBreaker     the same wrapped function called by several threads   *)
(*   SpecRate        SessionManager._rate_limit, called by the pool's      *)
(*                   workers before each request                           *)
(*   SpecLive        one run, with each task followed fetch by fetch, under*)
(*                   weak fairness of its steps                            *)
(*   SpecTargets     one full scrape over URL lists that hold URLs which   *)
(*                   are not well-formed http(s) URLs                      *)
(*   SpecUrl         calls of UrlHandler.filter_final_pages,               *)
(*                   is_final_page and discover_urls on one handler        *)
(*   SpecValidate    one call of UrlHandler.validate_url                   *)
(*   SpecConfig      one call of Config.validate                           *)
(*   SpecBackoff     one call of a retry-wrapped function, with the sleeps *)
(*                   between its attempts                                  *)
(*   SpecTimeout     calls of functions wrapped by                         *)
(*                   RetryHandler.timeout_handler, nested in one another   *)
(*   SpecDomain      one call of UrlHandler.get_domain                     *)
(***************************************************************************)
EXTENDS Integers, Sequences, FiniteSets, TLC

VARIABLES
    \* ---- one run of the scraper (Spec) ----
    config,      \* Config: max_retries, concurrency_level, save_html, start_urls
                 \* (and output_format in SpecConfig)
    mode,        \* "dry" (run_dry_run) or "full" (run_full_scrape)
    urlsArg,     \* the urls argument of the run: None or a list of URLs
    pc,          \* position of the run's main thread
    final_urls,  \* url_handler.filter_final_pages(urls)
    tasks,       \* one entry per dispatched URL (a future, or a dry-run sample)
    results,     \* the batch: scraped_data / sample_data
    collected,   \* futures already yielded by as_completed
    sinkLog,     \* calls of the result sink, each with the batch it was given
    summary,     \* the value the run returned
    raised,      \* the error the run raised, None if none
    \* ---- one call of a retry-wrapped function (SpecRetry, SpecScrape) ----
    r_arg,       \* the max_retries argument of retry_on_failure: None or a number
    r_st,        \* the wrapper's locals: attempt, last_exception, and its outcome
    r_history,   \* what each invocation of the wrapped function did, in order
    w_url,       \* scrape_url's url (SpecScrape)
    w_rec,       \* the record scrape_url returned (SpecScrape)
    \* ---- a function wrapped by circuit_breaker (SpecBreakerSeq, SpecBreaker) ----
    failure_threshold,   \* the decorator's parameters
    recovery_timeout,
    state,               \* func._state: closed, open or half-open
    failures,            \* func._failures
    last_failure_time,   \* func._last_failure_time
    now,                 \* time.time()
    callers,             \* the threads that call the wrapped function
    cb_pc,               \* where each thread is in wrapper
    current_time,        \* wrapper's local current_time, per thread
    read_failures,       \* the value of func._failures read by  += 1, per thread
    trial,               \* the call was let through in half-open state, per thread
    outcome,             \* how each thread's last call ended
    streak,              \* calls in a row that ended with an exception
    failed_at,           \* the time at which the operation last raised
    \* ---- SessionManager._rate_limit, called by the workers (SpecRate) ----
    last_request_time,   \* self.last_request_time
    clock,               \* time.time(), in ticks
    workers,             \* the threads that call make_request
    rl_pc,               \* where each worker is in _rate_limit
    rl_current_time,     \* _rate_limit's local current_time, per worker
    sleep_time,          \* _rate_limit's local sleep_time (0: no sleep), per worker
    wake_at,             \* the time at which the worker's time.sleep may return
    starts,              \* the times at which requests started, in order
    \* ---- calls of UrlHandler and of Config.validate (SpecUrl, SpecValidate,
    \*      SpecConfig) ----
    visited_urls,        \* UrlHandler.visited_urls
    h_urls,              \* the URL list the handler's methods are called with
    h_calls,             \* the calls of filter_final_pages so far, with results
    h_out,               \* the last call of another method, with its result
    v_url,               \* validate_url's argument
    v_result,            \* what validate_url(v_url) did
    cfg_result,          \* what config.validate() did
    \* ---- the backoff of a retry-wrapped function (SpecBackoff) ----
    retry_delay,         \* config.retry_delay, in seconds
    backoff_arg,         \* retry_on_failure's backoff_factor argument, or None
    sleeps,              \* the calls of time.sleep of the wrapper, in order
    \* ---- the futures of scrape_urls_concurrent (full run) ----
    done_order,          \* the finished futures not yet yielded, in finishing order
    yield_first,         \* as_completed's list of futures found finished at its call
    \* ---- functions wrapped by timeout_handler, in one process
    \*      (SpecTimeout) ----
    t_now,               \* the time, in seconds
    t_alarm,             \* the pending alarm: None, or the time SIGALRM is due
    t_handler,           \* the SIGALRM handler: 0 (default), or a wrapper call's
    t_frames,            \* the wrapper calls in progress on the main thread
    t_exc,               \* the exception that is propagating on the main thread
    t_done,              \* the wrapper calls that have ended, in order
    t_worker             \* what a wrapper call made on a worker thread did

runVars == <<config, mode, urlsArg, pc, final_urls, tasks, results, collected,
             sinkLog, summary, raised>>

retryVars == <<r_arg, r_st, r_history, w_url, w_rec>>

breakerVars == <<failure_threshold, recovery_timeout, state, failures,
                 last_failure_time, now, callers, cb_pc, current_time,
                 read_failures, trial, outcome, streak, failed_at>>

rateVars == <<last_request_time, clock, workers, rl_pc, rl_current_time,
              sleep_time, wake_at, starts>>

callVars == <<visited_urls, h_urls, h_calls, h_out, v_url, v_result, cfg_result>>

backoffVars == <<retry_delay, backoff_arg, sleeps>>

poolVars == <<done_order, yield_first>>

timeoutVars == <<t_now, t_alarm, t_handler, t_frames, t_exc, t_done, t_worker>>

vars == <<runVars, retryVars, breakerVars, rateVars, callVars, backoffVars, poolVars, timeoutVars>>

None == "None"

----------------------------------------------------------------------------
\* Bounds of the model

MaxDryUrls == 4         \* longest URL list given to a dry run in SpecDry
MaxUrls == 2            \* longest input URL list
MaxRetriesBound == 2    \* largest configured max_retries
MaxConcurrency == 2     \* largest configured concurrency_level
MaxThreshold == 2       \* largest failure_threshold of a circuit breaker
MaxTimeout == 1         \* largest recovery_timeout of a circuit breaker
MaxTime == 2            \* the clock stops here
MaxFailures == 3        \* no new call once func._failures is this large
MaxRequests == 3        \* no new request once so many have started (SpecRate)
NumThreads == 2         \* threads calling one wrapped function in SpecBreaker

----------------------------------------------------------------------------
\* URLs and the URL classifier (url_handler.py)

\* A URL is a string, modelled as the sequence of its tokens: a token is a
\* run of letters, a run of digits, or one punctuation character.
\* Url(segs) is the string https://x/segs[1]/segs[2]/...
RECURSIVE Slashed(_)
Slashed(segs) ==
    IF segs = <<>> THEN <<>> ELSE <<"/", Head(segs)>> \o Slashed(Tail(segs))

Url(segs) == <<"https", ":", "/", "/", "x">> \o Slashed(segs)

RuleUrl == Url(<<"rule", "1">>)
DocUrl == Url(<<"document", "2">>)
HomeUrl == Url(<<"home">>)

Urls == {RuleUrl, DocUrl, HomeUrl}

\* strings with a final page pattern that are no valid URL: ftp://x/rule/1
\* and /rule/1
FtpRuleUrl == <<"ftp", ":", "/", "/", "x">> \o Slashed(<<"rule", "1">>)
PathRuleUrl == Slashed(<<"rule", "1">>)

\* the URLs of the runs that are given invalid URLs too (SpecTargets)
TargetUrls == {RuleUrl, HomeUrl, FtpRuleUrl, PathRuleUrl}

\* runs of digits, i.e. the tokens at whose start \d+ matches
DigitSegments == {"1", "2"}

\* Config.final_page_patterns: /rule/\d+, /regulation/\d+, /document/\d+
final_page_patterns == <<"rule", "regulation", "document">>

\* the positions of url at which the pattern /<word>/\d+ matches
PatternMatches(word, url) ==
    {i \in 1..(Len(url) - 3) :
        /\ url[i] = "/" /\ url[i + 1] = word
        /\ url[i + 2] = "/" /\ url[i + 3] \in DigitSegments}

\* pattern.match(url) on the path: the pattern must match right after the host
PatternAtPathStart(word, url) == 6 \in PatternMatches(word, url)

\* pattern.search(url) for a pattern /<word>/\d+
PatternSearch(word, url) == PatternMatches(word, url) # {}

\* a classifier that takes every URL for a final page
is_any_page(url) == TRUE

\* a classifier that skips the URLs discover_urls has visited
is_unvisited_final_page(url) ==
    /\ url \notin visited_urls
    /\ \E k \in 1..Len(final_page_patterns) : PatternSearch(final_page_patterns[k], url)

is_final_page(url) ==
    \E k \in 1..Len(final_page_patterns) : PatternSearch(final_page_patterns[k], url)

RECURSIVE filter_final_pages(_)
filter_final_pages(urls) ==
    IF urls = <<>> THEN <<>>
    ELSE IF is_final_page(Head(urls))
         THEN <<Head(urls)>> \o filter_final_pages(Tail(urls))
         ELSE filter_final_pages(Tail(urls))

SeqsUpTo(S, n) == UNION {[1..k -> S] : k \in 0..n}

\* the punctuation characters of URL strings; any other token is a run of
\* letters or of digits
Punctuation == {":", "/", "@", "[", "?", "#"}

\* str.find: the first position of s that holds one of chars, 0 if none
FirstIndex(s, chars) ==
    IF \E i \in 1..Len(s) : s[i] \in chars
    THEN CHOOSE i \in 1..Len(s) :
            s[i] \in chars /\ \A j \in 1..(i - 1) : s[j] \notin chars
    ELSE 0

\* urllib.parse.urlparse(url), as far as validate_url reads its result: the
\* scheme is what precedes the first colon, if that begins with a letter and
\* has letters and digits only; the netloc is what follows // up to the next
\* /, ? or #; a netloc with [ and no ] raises ValueError
urlparse(url) ==
    LET i == FirstIndex(url, {":"})
        hasScheme == /\ i > 1
                     /\ url[1] \notin DigitSegments
                     /\ \A j \in 1..(i - 1) : url[j] \notin Punctuation
        scheme == IF hasScheme THEN SubSeq(url, 1, i - 1) ELSE <<>>
        rest == IF hasScheme THEN SubSeq(url, i + 1, Len(url)) ELSE url
        hasNetloc == Len(rest) >= 2 /\ rest[1] = "/" /\ rest[2] = "/"
        after == SubSeq(rest, 3, Len(rest))
        d == FirstIndex(after, {"/", "?", "#"})
        netloc == IF ~hasNetloc THEN <<>>
                  ELSE IF d = 0 THEN after ELSE SubSeq(after, 1, d - 1)
    IN [raises |-> \E k \in 1..Len(netloc) : netloc[k] = "[",
        scheme |-> scheme, netloc |-> netloc]

\* str.rfind: the last position of s that holds c, 0 if none
LastIndex(s, c) ==
    IF \E i \in 1..Len(s) : s[i] = c
    THEN CHOOSE i \in 1..Len(s) : s[i] = c /\ \A j \in (i + 1)..Len(s) : s[j] # c
    ELSE 0

\* the host of a network location user@host:port
HostOf(netloc) ==
    LET hostinfo == SubSeq(netloc, LastIndex(netloc, "@") + 1, Len(netloc))
        colon == FirstIndex(hostinfo, {":"})
    IN IF colon = 0 THEN hostinfo ELSE SubSeq(hostinfo, 1, colon - 1)

\* session.get(url) can send a request: the URL has a scheme for which the
\* session has an adapter (lines 35-36 of session_manager.py) and a host;
\* for any other URL it raises MissingSchema, InvalidSchema or InvalidURL
CanSend(url) ==
    LET parsed == urlparse(url) IN
    /\ ~parsed.raises
    /\ parsed.scheme \in {<<"http">>, <<"https">>}
    /\ HostOf(parsed.netloc) # <<>>

\* validate_url: bool(parsed.netloc and parsed.scheme in ['http', 'https']),
\* and False when urlparse raises
validate_url(url) ==
    LET parsed == urlparse(url) IN
    IF parsed.raises THEN FALSE
    ELSE parsed.netloc # <<>> /\ parsed.scheme \in {<<"http">>, <<"https">>}

\* An optional argument: <<>> is Python's None, <<v>> is the value v
NoArg == <<>>
Some(v) == <<v>>

\* Python truth value of an optional list: None and the empty list are false
TruthyList(opt) == opt # NoArg /\ opt[1] # <<>>

\* Python truth value of an optional string (None is the string None here)
TruthyStr(s) == s # None /\ s # ""

\* urls if urls is not None else self.config.start_urls
EffectiveUrlsIfGiven(arg, start_urls) == IF arg # NoArg THEN arg[1] ELSE start_urls

\* urls = urls or self.config.start_urls
EffectiveUrls(arg, start_urls) == IF TruthyList(arg) THEN arg[1] ELSE start_urls

----------------------------------------------------------------------------
\* Retry policy (retry_handler.py)

\* max_retries = max_retries or self.config.max_retries
RetryLimit(arg, cfg_max_retries) ==
    IF arg # NoArg /\ arg[1] # 0 THEN arg[1] ELSE cfg_max_retries

\* if attempt == max_retries: break   (the last pass of range(max_retries + 1))
IsLastAttempt(attempt, max_retries) == attempt = max_retries

\* What one invocation of the wrapped function does: it returns val, or it
\* raises an exception val
Returns(v) == [raises |-> FALSE, val |-> v]
Raises(e) == [raises |-> TRUE, val |-> e]

\* The wrapper's state on entry: attempt is the loop variable, calls counts
\* the invocations of func, status is looping, returned or raised, value the
\* value returned or the exception raised
RetryStart ==
    [attempt |-> 0, calls |-> 0, status |-> "looping",
     last_exception |-> None, value |-> None]

\* a wrapper that keeps the first exception instead of the last
KeepFirstException(last_exception, e) ==
    IF last_exception = None THEN e ELSE last_exception

\* last_exception = e
KeepException(last_exception, e) == e

\* One pass of the loop of wrapper: func is invoked and does o. A return ends
\* the wrapper; an exception is kept in last_exception and, on the last pass,
\* raised after the loop (if last_exception: raise last_exception), otherwise
\* the wrapper sleeps and goes round again
RetryStep(st, o, max_retries) ==
    IF ~o.raises
    THEN [st EXCEPT !.calls = @ + 1, !.status = "returned", !.value = o.val]
    ELSE LET last == KeepException(st.last_exception, o.val) IN
         IF IsLastAttempt(st.attempt, max_retries)
         THEN [st EXCEPT !.calls = @ + 1, !.last_exception = last,
                         !.status = "raised", !.value = last]
         ELSE [st EXCEPT !.calls = @ + 1, !.last_exception = last,
                         !.attempt = @ + 1]

\* The whole wrapper, func doing outcomes[1], outcomes[2], ... in turn
RECURSIVE RetryLoop(_, _, _)
RetryLoop(st, outcomes, max_retries) ==
    IF st.status # "looping" \/ outcomes = <<>> THEN st
    ELSE RetryLoop(RetryStep(st, Head(outcomes), max_retries), Tail(outcomes), max_retries)

----------------------------------------------------------------------------
\* Rate-limited fetcher (session_manager.py)

\* What one self.session.get(url) does:
\*   ok2xx    a response with a 2xx status
\*   ok3xx    a response with a status below 400 that is not 2xx
\*   http4xx  a 4xx status: raise_for_status raises HTTPError
\*   http5xx  a status of status_forcelist once the adapter's Retry is used up
\*   network  ConnectionError / Timeout once the adapter's Retry is used up
\*   other    an exception that is no requests.exceptions.RequestException
GetKinds == {"ok2xx", "ok3xx", "http4xx", "http5xx", "network", "other"}

\* what session.get does with a URL it cannot send: it raises MissingSchema,
\* InvalidSchema or InvalidURL, and no request is made
InvalidKinds == {"invalid"}

\* session.get raises a RequestException, or raise_for_status does
RaisesRequestException(kind) ==
    kind \in {"http4xx", "http5xx", "network", "invalid"}

\* the fetch attempt did not bring the page
FetchFailed(kind) == kind \in {"http4xx", "http5xx", "network", "other", "invalid"}

\* messages of exceptions that are no RequestException (str(e), maybe empty)
ExcMsgs == {"boom", ""}

\* make_request: returns the response, returns None when a RequestException
\* was caught, and lets any other exception (message msg) propagate
make_request(kind, msg) ==
    IF kind = "other" THEN Raises(msg)
    ELSE IF RaisesRequestException(kind) THEN Returns(None)
    ELSE Returns("response")

\* Requests the HTTPAdapter sends for one session.get: Retry(total=max_retries,
\* status_forcelist=[429, 500, 502, 503, 504]) resends after a connection error
\* and after a status of the forcelist, and gives up after max_retries resends.
AdapterSends(kind, cfg_max_retries) ==
    IF kind \in {"network", "http5xx"} THEN cfg_max_retries + 1
    ELSE IF kind \in InvalidKinds THEN 0
    ELSE 1

----------------------------------------------------------------------------
\* Records (scraper_main.py, parser.py)

FetchFailedMsg == "Failed to fetch URL after retries"

\* the failure shape of a record
ErrorRecord(url, msg) ==
    [id |-> None, title |-> None, url |-> url, text |-> None,
     sections |-> <<>>, metadata |-> <<>>, scraped_at |-> "utcnow",
     error |-> msg]

\* Parser._extract_id: the digits of the first match of the first of the
\* patterns /rule/(\d+), /regulation/(\d+), /document/(\d+) that matches the
\* URL; else an id found by the later patterns, in the page, or a hash
extract_id(url) ==
    LET matching == {k \in 1..Len(final_page_patterns) :
                        PatternSearch(final_page_patterns[k], url)}
    IN IF matching = {} THEN "hash"
       ELSE LET k == CHOOSE k \in matching : \A j \in matching : k <= j
                at == PatternMatches(final_page_patterns[k], url)
                i == CHOOSE i \in at : \A j \in at : i <= j
            IN url[i + 3]

\* Parser.parse_page: the extracted record (no error key), or the failure
\* shape with str(e) when the extraction raises
parse_page(url, parse) ==
    IF parse = "ok"
    THEN [id |-> extract_id(url), title |-> "T", url |-> url, text |-> "text",
          sections |-> <<>>, metadata |-> <<>>, scraped_at |-> "utcnow",
          error |-> None]
    ELSE ErrorRecord(url, parse)

ParseOutcomes == {"ok", "parse error"}

\* OutputHandler.save_html: writes the file ("ok"), or raises from mkdir
HtmlOutcomes == {"ok"} \cup {"mkdir failed"}

\* a scrape_url whose except branch returns a record without the error
ScrapeRecordNoError(url, st, parse, html, save_html) ==
    IF st.status = "raised" \/ st.value = None THEN ErrorRecord(url, None)
    ELSE parse_page(url, parse)

\* scrape_url once make_request_with_retry() has returned or raised (st is
\* the retry wrapper's final state): the except branch builds the failure
\* record with str(e); a None response gives the fetch failure record; else
\* the page is parsed and, if configured and the record has an id, saved
ScrapeRecord(url, st, parse, html, save_html) ==
    IF st.status = "raised" THEN ErrorRecord(url, st.value)
    ELSE IF st.value = None THEN ErrorRecord(url, FetchFailedMsg)
    ELSE LET data == parse_page(url, parse) IN
         IF save_html /\ TruthyStr(data.id) /\ html # "ok"
         THEN ErrorRecord(url, html)
         ELSE data

\* What scrape_url did with OutputHandler.save_html: "none" when it did not
\* call it (lines 56, 72 and 78), else what the call did
SaveHtmlCall(url, st, parse, html, save_html) ==
    IF st.status = "raised" \/ st.value = None THEN "none"
    ELSE IF save_html /\ TruthyStr(parse_page(url, parse).id) THEN html
    ELSE "none"

\* successful = [d for d in data if not d.get('error')]
Successful(recs) == {i \in 1..Len(recs) : ~TruthyStr(recs[i].error)}

----------------------------------------------------------------------------
\* One call of a function wrapped by retry_on_failure (SpecRetry), and one
\* call of scrape_url, whose wrapped function is make_request (SpecScrape)

\* the circuit breaker's variables, unused by the other specifications
BreakerIdle ==
    /\ failure_threshold = 1
    /\ recovery_timeout = 0
    /\ state = "closed"
    /\ failures = 0
    /\ last_failure_time = 0
    /\ now = 0
    /\ callers = {}
    /\ cb_pc = <<>>
    /\ current_time = <<>>
    /\ read_failures = <<>>
    /\ trial = <<>>
    /\ outcome = <<>>
    /\ streak = 0
    /\ failed_at = 0

\* the variables of single calls of UrlHandler and Config.validate
CallIdle ==
    /\ visited_urls = {}
    /\ h_urls = <<>>
    /\ h_calls = <<>>
    /\ h_out = [op |-> "none"]
    /\ v_url = NoArg
    /\ v_result = "none"
    /\ cfg_result = "none"

\* no future is finished and as_completed has not been called: the start of
\* a run, and the other specifications
PoolIdle ==
    /\ done_order = <<>>
    /\ yield_first = NoArg

\* no wrapper of timeout_handler has been called: the signal handler is the
\* default one and no alarm is pending
TimeoutIdle ==
    /\ t_now = 0
    /\ t_alarm = NoArg
    /\ t_handler = 0
    /\ t_frames = <<>>
    /\ t_exc = None
    /\ t_done = <<>>
    /\ t_worker = "none"

\* the backoff variables, unused by the other specifications
BackoffIdle ==
    /\ retry_delay = 0
    /\ backoff_arg = NoArg
    /\ sleeps = <<>>

\* the rate limiter's variables, unused by the other specifications
RateIdle ==
    /\ last_request_time = 0
    /\ clock = 0
    /\ workers = {}
    /\ rl_pc = <<>>
    /\ rl_current_time = <<>>
    /\ sleep_time = <<>>
    /\ wake_at = <<>>
    /\ starts = <<>>

BaseConfig ==
    [max_retries |-> 0, concurrency_level |-> 1, save_html |-> FALSE,
     start_urls |-> <<>>]

\* the run's variables, unused by the specifications of single calls
RunIdle ==
    /\ mode = "full"
    /\ urlsArg = NoArg
    /\ pc = "idle"
    /\ final_urls = <<>>
    /\ tasks = <<>>
    /\ results = <<>>
    /\ collected = {}
    /\ sinkLog = <<>>
    /\ summary = [kind |-> "none"]
    /\ raised = None

NoRecord == [kind |-> "none"]

\* exceptions the wrapped function of SpecRetry may raise
ExcIds == {"e1", "e2"}

FuncOutcomes == {Returns("value")} \cup {Raises(e) : e \in ExcIds}

InitRetry ==
    /\ config \in {[BaseConfig EXCEPT !.max_retries = m] : m \in 0..MaxRetriesBound}
    /\ r_arg \in {NoArg} \cup {Some(m) : m \in 0..MaxRetriesBound}
    /\ r_st = RetryStart
    /\ r_history = <<>>
    /\ w_url = RuleUrl
    /\ w_rec = NoRecord
    /\ RunIdle
    /\ BreakerIdle
    /\ RateIdle
    /\ CallIdle
    /\ BackoffIdle
    /\ PoolIdle
    /\ TimeoutIdle

\* the wrapper invokes func once more, and func does o
Invoke(o) ==
    /\ r_st.status = "looping"
    /\ r_st' = RetryStep(r_st, o, RetryLimit(r_arg, config.max_retries))
    /\ r_history' = Append(r_history, [kind |-> "func", raises |-> o.raises, val |-> o.val])
    /\ UNCHANGED <<runVars, breakerVars, rateVars, r_arg, w_url, w_rec, callVars,
                   backoffVars, poolVars, timeoutVars>>

NextRetry == \E o \in FuncOutcomes : Invoke(o)

SpecRetry == InitRetry /\ [][NextRetry]_vars

\* number of invocations of the wrapped function that raised
NumFailures == Cardinality({i \in 1..Len(r_history) : r_history[i].raises})

AllInvocationsFailed == \A i \in 1..Len(r_history) : r_history[i].raises

(* C4: for every maxRetries >= 0 passed to the retry wrapper (0 included), an
   operation that fails k <= maxRetries times and then succeeds is invoked
   k + 1 times and its value is returned, and an operation that fails more
   than maxRetries times is invoked maxRetries + 1 times and the wrapper then
   raises. *)
C4_InvocationsFollowArgument ==
    r_arg # NoArg =>
        LET maxRetries == r_arg[1] IN
        /\ r_st.calls <= maxRetries + 1
        /\ r_st.status = "returned" =>
              /\ NumFailures <= maxRetries
              /\ r_st.calls = NumFailures + 1
              /\ r_st.value = "value"
        /\ NumFailures > maxRetries => r_st.status = "raised"
        /\ r_st.status = "raised" => r_st.calls = maxRetries + 1

(* C5: when all maxRetries + 1 attempts of a retried operation fail, the
   wrapper raises the failure of the final attempt: it neither raises an
   earlier attempt's failure nor returns a value in place of the failure
   (maxRetries being the limit the wrapper runs with). *)
C5_RaisesLastFailure ==
    LET limit == RetryLimit(r_arg, config.max_retries) IN
    /\ (AllInvocationsFailed /\ Len(r_history) = limit + 1) =>
          /\ r_st.status = "raised"
          /\ r_st.value = r_history[Len(r_history)].val
    /\ r_st.status = "raised" =>
          /\ AllInvocationsFailed
          /\ Len(r_history) = limit + 1

\* every attempt failed, the first with another exception than the last
C5_Witness ==
    /\ r_st.status = "raised"
    /\ Len(r_history) >= 2
    /\ r_history[1].val # r_history[Len(r_history)].val

InitScrape ==
    /\ config \in {[BaseConfig EXCEPT !.max_retries = m, !.save_html = h] :
                      m \in 0..MaxRetriesBound, h \in BOOLEAN}
    /\ r_arg = NoArg
    /\ r_st = RetryStart
    /\ r_history = <<>>
    /\ w_url \in {u \in Urls : is_final_page(u)}
    /\ w_rec = NoRecord
    /\ RunIdle
    /\ BreakerIdle
    /\ RateIdle
    /\ CallIdle
    /\ BackoffIdle
    /\ PoolIdle
    /\ TimeoutIdle

\* make_request_with_retry() invokes make_request(url) once more, and
\* session.get does kind
FetchAttempt(kind, msg) ==
    /\ r_st.status = "looping"
    /\ w_rec = NoRecord
    /\ LET o == make_request(kind, msg) IN
       /\ r_st' = RetryStep(r_st, o, RetryLimit(r_arg, config.max_retries))
       /\ r_history' = Append(r_history, [kind |-> kind, raises |-> o.raises, val |-> o.val])
    /\ UNCHANGED <<runVars, breakerVars, rateVars, r_arg, w_url, w_rec, callVars,
                   backoffVars, poolVars, timeoutVars>>

\* the rest of scrape_url, up to its return
FinishScrape(parse, html) ==
    /\ r_st.status # "looping"
    /\ w_rec = NoRecord
    /\ w_rec' = ScrapeRecord(w_url, r_st, parse, html, config.save_html)
    /\ UNCHANGED <<runVars, breakerVars, rateVars, r_arg, r_st, r_history, w_url,
                   callVars, backoffVars, poolVars, timeoutVars>>

NextScrape ==
    \/ \E kind \in GetKinds, msg \in ExcMsgs : FetchAttempt(kind, msg)
    \/ \E parse \in ParseOutcomes, html \in HtmlOutcomes : FinishScrape(parse, html)

SpecScrape == InitScrape /\ [][NextScrape]_vars

\* every call of session.get so far failed to bring the page
AllFetchesFailed ==
    /\ r_history # <<>>
    /\ \A i \in 1..Len(r_history) : FetchFailed(r_history[i].kind)

\* requests sent by the adapter over all calls of session.get
RECURSIVE TotalSends(_)
TotalSends(h) ==
    IF h = <<>> THEN 0
    ELSE AdapterSends(Head(h).kind, config.max_retries) + TotalSends(Tail(h))

(* C6: when every fetch attempt for a final URL fails (network error, HTTP
   error status or any other exception) and max_retries is m, the worker makes
   exactly m + 1 fetch attempts before producing the record, and the record
   has a non-null error. A fetch attempt is a call of make_request; the claim
   is also taken to hold when the requests the HTTP adapter sent number
   m + 1. *)
C6_FailedFetchTriedAgain ==
    (w_rec # NoRecord /\ AllFetchesFailed) =>
        /\ \/ Len(r_history) = config.max_retries + 1
           \/ TotalSends(r_history) = config.max_retries + 1
        /\ w_rec.error # None

\* what the last call of session.get did
LastFetchKind == r_history[Len(r_history)].kind

\* scrape_url reached line 69 and called parse_page on the response
ExtractorCalled == r_st.status = "returned" /\ r_st.value # None

\* C26: for every HTTP response with a status outside 200-299 (1xx and 3xx
\* as well as 4xx and 5xx) and for every network error the fetch outcome is
\* Failed: the URL's record has a non-null error and the content extractor
\* is not called on that response.
C26_Non2xxIsFailed ==
    ( /\ w_rec # NoRecord
      /\ r_history # <<>>
      /\ LastFetchKind \in {"ok3xx", "http4xx", "http5xx", "network"} )
        => (w_rec.error # None /\ ~ExtractorCalled)

----------------------------------------------------------------------------
\* One run of the scraper (scraper_main.py): Spec

\* sample_urls = final_urls[:3]
SampleSize == 3

\* a sample that is the whole list
WholeList(s, n) == s

Prefix(s, n) == SubSeq(s, 1, IF Len(s) < n THEN Len(s) ELSE n)

Configs ==
    [max_retries : 0..MaxRetriesBound,
     concurrency_level : 1..MaxConcurrency,
     save_html : BOOLEAN,
     start_urls : {<<>>, <<DocUrl>>}]

UrlArgs == {NoArg} \cup {Some(l) : l \in SeqsUpTo(Urls, MaxUrls)}

NoSummary == [kind |-> "none"]

\* a dispatched URL: st is queued, running or done, rec the record that
\* scrape_url returned, failed whether its fetch or its extraction failed,
\* html what its call of save_html did ("none": no call), retry the state
\* of the retry wrapper around make_request where the fetch attempts are
\* followed one by one (SpecLive)
NewTask(url) ==
    [url |-> url, st |-> "queued", rec |-> NoRecord, failed |-> FALSE,
     html |-> "none", retry |-> RetryStart]

\* the variables of the single-call specifications, unused by a run
RetryIdle ==
    /\ r_arg = NoArg
    /\ r_st = RetryStart
    /\ r_history = <<>>
    /\ w_url = RuleUrl
    /\ w_rec = NoRecord

\* a run that is given URLs never reads start_urls: the configured list is
\* then the non-empty one
Init ==
    /\ config \in Configs
    /\ mode \in {"dry", "full"}
    /\ urlsArg \in UrlArgs
    /\ TruthyList(urlsArg) => config.start_urls # <<>>
    /\ pc = "start"
    /\ final_urls = <<>>
    /\ tasks = <<>>
    /\ results = <<>>
    /\ collected = {}
    /\ sinkLog = <<>>
    /\ summary = NoSummary
    /\ raised = None
    /\ RetryIdle
    /\ BreakerIdle
    /\ RateIdle
    /\ CallIdle
    /\ BackoffIdle
    /\ PoolIdle
    /\ TimeoutIdle

\* the URL list of the run
InputUrls == EffectiveUrls(urlsArg, config.start_urls)

\* the summary returned when no input URL is a final page
EmptySummary ==
    IF mode = "dry"
    THEN [kind |-> "empty", total_urls |-> Len(InputUrls), final_page_urls |-> 0,
          sample_data |-> <<>>, errors |-> <<"No final page URLs found">>]
    ELSE [kind |-> "empty", run_id |-> "run", total_urls |-> Len(InputUrls),
          final_page_urls |-> 0, scraped_data |-> <<>>, saved_files |-> {},
          errors |-> <<"No final page URLs found">>]

\* the URLs the run scrapes: the dry run's sample, or every final URL
ToScrape(finals) == IF mode = "dry" THEN Prefix(finals, SampleSize) ELSE finals

RECURSIVE Distinct(_)
Distinct(l) ==
    IF l = <<>> THEN <<>>
    ELSE LET front == Distinct(SubSeq(l, 1, Len(l) - 1))
             x == l[Len(l)]
         IN IF \E i \in 1..Len(front) : front[i] = x THEN front ELSE Append(front, x)

\* futures kept per URL, so that a URL listed twice is scraped once
DispatchPerUrl(todo) == [i \in 1..Len(Distinct(todo)) |->
    NewTask(Distinct(todo)[i])]

\* the futures of scrape_urls_concurrent, one per position of the list
\* (executor.submit returns a new future for every URL of urls)
Dispatch(todo) == [i \in 1..Len(todo) |-> NewTask(todo[i])]

\* run_dry_run / run_full_scrape up to the dispatch: the empty URL set raises,
\* no final page returns at once, else the URLs to scrape are dispatched
Begin ==
    /\ pc = "start"
    /\ LET finals == filter_final_pages(InputUrls) IN
       IF InputUrls = <<>>
       THEN /\ raised' = "ValueError"
            /\ pc' = "raised"
            /\ UNCHANGED <<final_urls, tasks, summary>>
       ELSE IF finals = <<>>
       THEN /\ summary' = EmptySummary
            /\ pc' = "returned"
            /\ UNCHANGED <<final_urls, tasks, raised>>
       ELSE /\ final_urls' = finals
            /\ tasks' = Dispatch(ToScrape(finals))
            /\ pc' = "scraping"
            /\ UNCHANGED <<summary, raised>>
    /\ UNCHANGED <<config, mode, urlsArg, results, collected, sinkLog, retryVars,
                   breakerVars, rateVars, callVars, backoffVars, poolVars,
                   timeoutVars>>

Running == {i \in 1..Len(tasks) : tasks[i].st = "running"}

\* a pool with one worker less than max_workers
CanStartOneLess(i) ==
    /\ tasks[i].st = "queued"
    /\ \A j \in 1..(i - 1) : tasks[j].st # "queued"
    /\ IF mode = "dry"
       THEN \A j \in 1..(i - 1) : tasks[j].st = "done"
       ELSE Cardinality(Running) < config.concurrency_level - 1

\* a pool that starts a thread for every submitted task
CanStartUnbounded(i) ==
    /\ tasks[i].st = "queued"
    /\ \A j \in 1..(i - 1) : tasks[j].st # "queued"
    /\ mode = "dry" => \A j \in 1..(i - 1) : tasks[j].st = "done"

\* A worker of the pool takes the next queued task (full run: the pool has
\* max_workers = concurrency_level threads and a FIFO work queue), or the dry
\* run's loop calls scrape_url for the next sample URL
CanStart(i) ==
    /\ tasks[i].st = "queued"
    /\ \A j \in 1..(i - 1) : tasks[j].st # "queued"
    /\ IF mode = "dry"
       THEN \A j \in 1..(i - 1) : tasks[j].st = "done"
       ELSE Cardinality(Running) < config.concurrency_level

StartTask(i) ==
    /\ pc = "scraping"
    /\ CanStart(i)
    /\ tasks' = [tasks EXCEPT ![i].st = "running"]
    /\ UNCHANGED <<config, mode, urlsArg, pc, final_urls, results, collected,
                   sinkLog, summary, raised, retryVars, breakerVars, rateVars,
                   callVars, backoffVars, poolVars, timeoutVars>>

\* What session.get does over the calls of one scrape_url: k calls raise an
\* exception that is no RequestException, then one call does kind
FetchScript(k, kind, msg) ==
    [i \in 1..(k + 1) |-> IF i <= k THEN make_request("other", msg)
                                     ELSE make_request(kind, msg)]

\* the states in which the retry wrapper around make_request may end, for
\* every configured max_retries, and for a URL session.get can send and
\* one it cannot
FetchEndsOf ==
    [m \in 0..MaxRetriesBound, sendable \in BOOLEAN |->
        LET limit == RetryLimit(NoArg, m)
            scripts == IF sendable
                       THEN {FetchScript(k, kind, msg) :
                                k \in 0..limit, kind \in GetKinds, msg \in ExcMsgs}
                       ELSE {FetchScript(0, kind, "") : kind \in InvalidKinds}
            ends == {RetryLoop(RetryStart, script, limit) : script \in scripts}
        IN {st \in ends : st.status # "looping"}]

\* the states in which the retry wrapper around make_request may end, for a
\* URL that session.get can send
FetchEnds == FetchEndsOf[config.max_retries, TRUE]

\* the fetch failed (the wrapper raised, or make_request returned None), or
\* the extraction did
ScrapeFailed(st, parse) ==
    st.status = "raised" \/ st.value = None \/ parse # "ok"

\* every way scrape_url(url) may end: the retry wrapper around make_request
\* has ended, then parse_page and save_html run, or the failure record is
\* built
ScrapeOutcomesOf ==
    [url \in Urls \cup TargetUrls, m \in 0..MaxRetriesBound, save_html \in BOOLEAN |->
        {[rec |-> ScrapeRecord(url, st, parse, html, save_html),
          failed |-> ScrapeFailed(st, parse),
          html |-> SaveHtmlCall(url, st, parse, html, save_html)] :
            st \in FetchEndsOf[m, CanSend(url)], parse \in ParseOutcomes,
            html \in HtmlOutcomes}]

\* every way scrape_url(url) may end under the run's configuration
ScrapeOutcomes(url) == ScrapeOutcomesOf[url, config.max_retries, config.save_html]

\* the batch after scrape_url returned rec: the dry run appends it to
\* sample_data at once, the full run when as_completed yields the future
AfterScrape(recs, rec) == IF mode = "dry" THEN Append(recs, rec) ELSE recs

\* the finished futures after scrape_url of task i returned: the worker sets
\* the future's result, which adds it to the waiter of as_completed
AfterFinish(order, i) == IF mode = "full" THEN Append(order, i) ELSE order

\* the task of tasks[i] ends: scrape_url returns a record
FinishTask(i) ==
    /\ pc = "scraping"
    /\ tasks[i].st = "running"
    /\ \E out \in ScrapeOutcomes(tasks[i].url) :
        /\ tasks' = [tasks EXCEPT ![i] = [@ EXCEPT !.st = "done", !.rec = out.rec,
                                                   !.failed = out.failed,
                                                   !.html = out.html]]
        /\ results' = AfterScrape(results, out.rec)
    /\ done_order' = AfterFinish(done_order, i)
    /\ UNCHANGED <<config, mode, urlsArg, pc, final_urls, collected, sinkLog,
                   summary, raised, retryVars, breakerVars, rateVars,
                   callVars, backoffVars, yield_first, timeoutVars>>

\* as_completed(future_to_url) is called, after every task was submitted:
\* it makes a list of the set of the futures that are finished by then
AsCompleted ==
    /\ pc = "scraping"
    /\ mode = "full"
    /\ yield_first = NoArg
    /\ yield_first' = Some({i \in 1..Len(tasks) : tasks[i].st = "done"})
    /\ UNCHANGED <<runVars, done_order, retryVars, breakerVars, rateVars,
                   callVars, backoffVars, timeoutVars>>

\* the futures as_completed may yield next: first those of the set it found
\* finished when it was called, in the set's order (any order), then the
\* others in the order they finished, which is the order of the waiter's
\* finished_futures.  (concurrent.futures.as_completed)
YieldNext ==
    IF yield_first = NoArg THEN {}
    ELSE IF yield_first[1] # {} THEN yield_first[1]
    ELSE IF done_order = <<>> THEN {} ELSE {Head(done_order)}

\* as_completed's list and the unyielded futures once future i is yielded
Yielded(i) ==
    /\ yield_first' = Some(yield_first[1] \ {i})
    /\ done_order' = SelectSeq(done_order, LAMBDA k : k # i)

\* a collection loop that gives up the other futures after a failed one
CollectableUntilFailure ==
    {i \in YieldNext : \A k \in collected : ~tasks[k].failed}

\* the futures the loop of line 102 may handle next
Collectable == YieldNext

\* for future in as_completed(future_to_url): results.append(future.result())
Collect(i) ==
    /\ pc = "scraping"
    /\ mode = "full"
    /\ i \in Collectable
    /\ results' = Append(results, tasks[i].rec)
    /\ collected' = collected \cup {i}
    /\ Yielded(i)
    /\ UNCHANGED <<config, mode, urlsArg, pc, final_urls, tasks, sinkLog,
                   summary, raised, retryVars, breakerVars, rateVars,
                   callVars, backoffVars, timeoutVars>>

\* a collection loop that is left when the first future has been yielded
FirstCollected == collected # {}

\* as_completed has yielded every future, and the with block of the executor
\* has been left (shutdown(wait=True))
AllCollected == collected = 1..Len(tasks)

\* scrape_urls_concurrent returns its results to run_full_scrape
ScrapeReturned ==
    /\ pc = "scraping"
    /\ mode = "full"
    /\ AllCollected
    /\ pc' = "saving"
    /\ UNCHANGED <<config, mode, urlsArg, final_urls, tasks, results, collected,
                   sinkLog, summary, raised, retryVars, breakerVars, rateVars,
                   callVars, backoffVars, poolVars, timeoutVars>>

\* a run that goes on to the report when save_results has raised
SaveResultsSwallowed(ok) ==
    /\ pc = "saving"
    /\ sinkLog' = Append(sinkLog, [op |-> "save_results", batch |-> results,
                                   ok |-> ok])
    /\ pc' = "reporting"
    /\ UNCHANGED <<config, mode, urlsArg, final_urls, tasks, results, collected,
                   summary, raised, retryVars, breakerVars, rateVars, callVars,
                   backoffVars, poolVars, timeoutVars>>

\* saved_files = self.output_handler.save_results(scraped_data, run_id):
\* the sink writes the files (ok), or raises
SaveResults(ok) ==
    /\ pc = "saving"
    /\ sinkLog' = Append(sinkLog, [op |-> "save_results", batch |-> results,
                                   ok |-> ok])
    /\ IF ok THEN pc' = "reporting" /\ UNCHANGED raised
             ELSE pc' = "raised" /\ raised' = "SinkError"
    /\ UNCHANGED <<config, mode, urlsArg, final_urls, tasks, results, collected,
                   summary, retryVars, breakerVars, rateVars, callVars,
                   backoffVars, poolVars, timeoutVars>>

FullSummary ==
    [kind |-> "full", run_id |-> "run",
     total_urls |-> Len(InputUrls),
     final_page_urls |-> Len(final_urls),
     scraped_records |-> Len(results),
     successful_scrapes |-> Cardinality(Successful(results)),
     saved_files |-> {"json", "report"},
     dry_run |-> FALSE]

\* report_file = generate_summary_report(scraped_data, run_id); then the
\* summary is built and returned
ReportAndReturn(ok) ==
    /\ pc = "reporting"
    /\ sinkLog' = Append(sinkLog, [op |-> "generate_summary_report",
                                   batch |-> results, ok |-> ok])
    /\ IF ok THEN pc' = "returned" /\ summary' = FullSummary /\ UNCHANGED raised
             ELSE pc' = "raised" /\ raised' = "SinkError" /\ UNCHANGED summary
    /\ UNCHANGED <<config, mode, urlsArg, final_urls, tasks, results, collected,
                   retryVars, breakerVars, rateVars, callVars, backoffVars,
                   poolVars, timeoutVars>>

DrySummary ==
    [kind |-> "dry",
     total_urls |-> Len(InputUrls),
     final_page_urls |-> Len(final_urls),
     sample_scraped |-> Len(results),
     successful_samples |-> Cardinality(Successful(results)),
     sample_data |-> results,
     dry_run |-> TRUE]

\* run_dry_run after its loop over sample_urls
DryReturn ==
    /\ pc = "scraping"
    /\ mode = "dry"
    /\ \A i \in 1..Len(tasks) : tasks[i].st = "done"
    /\ pc' = "returned"
    /\ summary' = DrySummary
    /\ UNCHANGED <<config, mode, urlsArg, final_urls, tasks, results, collected,
                   sinkLog, raised, retryVars, breakerVars, rateVars,
                   callVars, backoffVars, poolVars, timeoutVars>>

Next ==
    \/ Begin
    \/ \E i \in 1..Len(tasks) : StartTask(i)
    \/ \E i \in 1..Len(tasks) : FinishTask(i)
    \/ AsCompleted
    \/ \E i \in 1..Len(tasks) : Collect(i)
    \/ ScrapeReturned
    \/ \E ok \in BOOLEAN : SaveResults(ok)
    \/ \E ok \in BOOLEAN : ReportAndReturn(ok)
    \/ DryReturn

Spec == Init /\ [][Next]_vars

----------------------------------------------------------------------------
\* Claims about a run

RECURSIVE CountUrl(_, _)
CountUrl(l, u) ==
    IF l = <<>> THEN 0
    ELSE (IF Head(l) = u THEN 1 ELSE 0) + CountUrl(Tail(l), u)

RecordUrls(recs) == [i \in 1..Len(recs) |-> recs[i].url]

\* scrape_urls_concurrent(final_urls) has returned its results
ScrapeHasReturned ==
    mode = "full" /\ tasks # <<>> /\ pc \in {"saving", "reporting", "returned", "raised"}

(* C1: whatever the final URLs passed to scrape_urls_concurrent (duplicates
   allowed) and whatever each URL's outcome, the returned batch has exactly
   one record per dispatched URL: as many records as URLs, and the same
   multiset of URLs. *)
C1_OneRecordPerUrl ==
    ScrapeHasReturned =>
        /\ Len(results) = Len(final_urls)
        /\ \A u \in Urls : CountUrl(RecordUrls(results), u) = CountUrl(final_urls, u)

\* a URL listed twice, one of its two records a success and one a failure
C1_Witness ==
    /\ ScrapeHasReturned
    /\ Len(final_urls) = 2
    /\ final_urls[1] = final_urls[2]
    /\ results[1].error = None
    /\ results[2].error # None

\* the sink has been called, with all tasks finished and collected
SinkSawWholeBatch ==
    /\ \A i \in 1..Len(tasks) : tasks[i].st = "done"
    /\ AllCollected
    /\ Len(results) = Len(tasks)
    /\ \A i \in 1..Len(tasks) : \E j \in 1..Len(results) : results[j] = tasks[i].rec
    /\ \A k \in 1..Len(sinkLog) : sinkLog[k].batch = results

(* C2: run_full_scrape calls the result sink (save_results, then
   generate_summary_report) and returns only after every dispatched task has
   yielded its record: when the sink is called no task is queued or running
   and no record is missing from the batch, and the batch is not modified
   from then on. *)
C2_SinkAfterAllTasks ==
    [][/\ (sinkLog' # <<>> \/ (mode = "full" /\ pc' = "returned" /\ tasks' # <<>>))
            => SinkSawWholeBatch'
       /\ sinkLog # <<>> => results' = results]_vars

\* the sink was called after two tasks shared the pool's only worker
C2_Witness ==
    /\ Len(sinkLog) = 2
    /\ Len(tasks) = 2
    /\ config.concurrency_level = 1
    /\ pc = "returned"

\* the records a returned summary carries
SummaryRecords(s) ==
    IF s.kind = "dry" \/ (s.kind = "empty" /\ mode = "dry") THEN s.sample_data
    ELSE IF s.kind = "empty" THEN s.scraped_data
    ELSE <<>>

\* the batch of a run that returned: sample_data of the dry run's summary,
\* scraped_data as the full run gave it to the sink
RunBatch == IF mode = "dry" THEN summary.sample_data ELSE sinkLog[1].batch

HasErrorRecord(recs, url) ==
    \E j \in 1..Len(recs) : recs[j].url = url /\ recs[j].error # None

\* a run raises only for an empty URL set or a failing sink, and is never
\* stuck before it returned or raised
RunEndsUnlessSetupOrSinkFails ==
    /\ pc = "raised" =>
          \/ raised = "ValueError" /\ InputUrls = <<>>
          \/ raised = "SinkError" /\ sinkLog # <<>>
    /\ pc \notin {"returned", "raised"} => ENABLED Next
    /\ (pc = "returned" /\ tasks # <<>>) => summary.kind \in {"dry", "full"}

(* C3 as stated: a fetch or extraction failure is never raised out of
   run_dry_run or run_full_scrape; with at least one final URL and a sink
   that does not fail the run returns a summary, and each failed URL appears
   in the summary as a record with a non-null error. *)
C3_FailedUrlsInSummary ==
    /\ RunEndsUnlessSetupOrSinkFails
    /\ (pc = "returned" /\ tasks # <<>>) =>
          \A i \in 1..Len(tasks) :
              tasks[i].failed => HasErrorRecord(SummaryRecords(summary), tasks[i].url)

(* C3 amended: ... and each failed URL has a record with a non-null error in
   the run's batch: sampleData of a dry run's summary, and the batch a full
   run gave to the sink (its summary carries only the counts). *)
C3_FailedUrlsInBatch ==
    /\ RunEndsUnlessSetupOrSinkFails
    /\ (pc = "returned" /\ tasks # <<>>) =>
          \A i \in 1..Len(tasks) :
              tasks[i].failed => HasErrorRecord(RunBatch, tasks[i].url)

\* a full run returned its summary though every one of its two URLs failed
C3_Witness ==
    /\ pc = "returned"
    /\ mode = "full"
    /\ Len(tasks) = 2
    /\ \A i \in 1..Len(tasks) : tasks[i].failed
    /\ summary.successful_scrapes = 0

\* C13: during a full run at most concurrency_level scrape_url tasks are
\* executing; the other dispatched tasks wait for a free worker, and no task
\* runs outside the pool.
C13_PoolBounded ==
    mode = "full" =>
        /\ Cardinality(Running) <= config.concurrency_level
        /\ \A i \in 1..Len(tasks) :
              tasks[i].st = "queued" =>
                  (ENABLED StartTask(i) =>
                      Cardinality(Running) < config.concurrency_level)

\* every worker of the pool is busy and a dispatched task waits
C13_Witness ==
    /\ mode = "full"
    /\ pc = "scraping"
    /\ Cardinality(Running) = config.concurrency_level
    /\ \E i \in 1..Len(tasks) : tasks[i].st = "queued"

\* C14: a failure of the task of one URL does not cancel, skip or change the
\* task of another URL: whatever the other tasks did, a task whose turn it
\* is can start, a running task can end, ended tasks can be collected (the
\* only ended task that is left at once), and
\* when scrape_urls_concurrent returns every task has ended with a record
\* that scrape_url may give for its URL alone, and the record is in the batch.
C14_SiblingsUnaffected ==
    /\ (mode = "full" /\ pc = "scraping") =>
          \A j \in 1..Len(tasks) :
              /\ ( /\ tasks[j].st = "queued"
                   /\ \A k \in 1..(j - 1) : tasks[k].st # "queued"
                   /\ Cardinality(Running) < config.concurrency_level )
                    => ENABLED StartTask(j)
              /\ tasks[j].st = "running" => ENABLED FinishTask(j)
              /\ (tasks[j].st = "done" /\ j \notin collected)
                    => \/ ENABLED AsCompleted
                       \/ \E k \in 1..Len(tasks) : ENABLED Collect(k)
              /\ ( /\ tasks[j].st = "done" /\ j \notin collected
                   /\ yield_first # NoArg
                   /\ \A k \in 1..Len(tasks) :
                         (tasks[k].st = "done" /\ k # j) => k \in collected )
                    => ENABLED Collect(j)
    /\ ScrapeHasReturned =>
          \A j \in 1..Len(tasks) :
              /\ tasks[j].st = "done"
              /\ [rec |-> tasks[j].rec, failed |-> tasks[j].failed,
                  html |-> tasks[j].html]
                    \in ScrapeOutcomes(tasks[j].url)
              /\ \E k \in 1..Len(results) : results[k] = tasks[j].rec

\* the first task failed and was collected first; the second task then
\* ended with the extracted record, and the run returned
C14_Witness ==
    /\ ScrapeHasReturned
    /\ pc = "returned"
    /\ Len(tasks) = 2
    /\ tasks[1].failed
    /\ results[1] = tasks[1].rec
    /\ ~tasks[2].failed
    /\ tasks[2].rec.error = None
    /\ tasks[1].url # tasks[2].url

\* C33: in a full run the batch lists records in completion order, not input
\* order: if the task for URL A finished before the task for URL B finished,
\* A's record precedes B's in the batch, whatever their positions in the
\* input list.
C33_CompletionOrder ==
    [][\A i \in 1..Len(tasks) :
          (mode = "full" /\ i \in collected' \ collected)
              => Head(done_order) = i
      ]_vars

\* the pool of the scrape stage would take task i: it is the first queued
\* task and fewer than concurrency_level tasks are running
PoolWouldStart(i) ==
    /\ tasks[i].st = "queued"
    /\ \A j \in 1..(i - 1) : tasks[j].st # "queued"
    /\ Cardinality(Running) < config.concurrency_level

\* C34: dry run and full run share the fetch/extract/aggregate machinery and
\* differ only in scope: a dry run processes its sample as the scrape stage
\* of a full run would process the first 3 final URLs of the input, i.e.
\* dispatched through the same worker pool of size concurrency_level (a
\* sample URL starts whenever the pool would start it) and aggregated the
\* same way, with a record that scrape_url may give for each.
C34_DryRunSharesPool ==
    (mode = "dry" /\ pc = "scraping") =>
        \A i \in 1..Len(tasks) :
            /\ PoolWouldStart(i) => ENABLED StartTask(i)
            /\ tasks[i].st = "done" =>
                  [rec |-> tasks[i].rec, failed |-> tasks[i].failed,
                   html |-> tasks[i].html] \in ScrapeOutcomes(tasks[i].url)

\* url is one of the URLs of the list l
InList(url, l) == \E k \in 1..Len(l) : l[k] = url

\* C35: when a urls argument is passed to run_dry_run or run_full_scrape the
\* run processes exactly that list: total_urls is its length and no
\* configured start URL outside the list is classified or fetched; the
\* configured start URLs are used only when the argument is absent.
C35_ArgumentListProcessed ==
    (urlsArg # NoArg /\ pc # "start") =>
        /\ summary # NoSummary => summary.total_urls = Len(urlsArg[1])
        /\ \A k \in 1..Len(final_urls) : InList(final_urls[k], urlsArg[1])
        /\ \A i \in 1..Len(tasks) : InList(tasks[i].url, urlsArg[1])

\* the fields every record has
RecordFields ==
    {"id", "title", "url", "text", "sections", "metadata", "scraped_at", "error"}

\* C15: every record of a batch has url and scraped_at; its error is set if
\* and only if the fetch or the extraction failed for its URL; and a record
\* with an error has null id, title and text and empty sections and metadata.
C15_ErrorIffFailed ==
    \A i \in 1..Len(tasks) :
        tasks[i].st = "done" =>
            LET rec == tasks[i].rec IN
            /\ DOMAIN rec = RecordFields
            /\ rec.url = tasks[i].url
            /\ rec.scraped_at # None
            /\ rec.error # None <=> tasks[i].failed
            /\ rec.error # None =>
                  /\ rec.id = None /\ rec.title = None /\ rec.text = None
                  /\ rec.sections = <<>> /\ rec.metadata = <<>>

\* the dispatched URLs whose fetch or extraction failed
FailedTasks == {i \in 1..Len(tasks) : tasks[i].failed}

\* C16: in the summary of a full run scraped_records is the number of final
\* URLs and successful_scrapes the number of dispatched URLs whose fetch and
\* extraction both succeeded; a failed URL is never counted as successful,
\* whatever the message of its failure, so successful_scrapes plus the
\* number of failed URLs is scraped_records.
C16_SuccessCount ==
    (pc = "returned" /\ mode = "full" /\ tasks # <<>>) =>
        /\ summary.scraped_records = Len(final_urls)
        /\ summary.successful_scrapes = Len(tasks) - Cardinality(FailedTasks)
        /\ summary.successful_scrapes + Cardinality(FailedTasks)
              = summary.scraped_records

\* the calls of the sink that raised
FailedSinkCalls == {k \in 1..Len(sinkLog) : ~sinkLog[k].ok}

\* C28: if the result sink fails while saving the batch, run_full_scrape
\* raises that failure to its caller (it is not swallowed and no success
\* summary is returned), and that can happen only after the record of every
\* dispatched task has been collected.
C28_SinkFailureRaised ==
    /\ \A k \in FailedSinkCalls :
          /\ k = Len(sinkLog)
          /\ pc = "raised"
          /\ raised = "SinkError"
          /\ summary = NoSummary
          /\ AllCollected
          /\ \A i \in 1..Len(tasks) :
                /\ tasks[i].st = "done"
                /\ \E j \in 1..Len(sinkLog[k].batch) :
                      sinkLog[k].batch[j] = tasks[i].rec
    /\ raised = "SinkError" => FailedSinkCalls # {}

\* save_results raised for a batch of two records, one of them a failure,
\* and the run has raised
C28_Witness ==
    /\ pc = "raised"
    /\ Len(sinkLog) = 1
    /\ sinkLog[1].op = "save_results"
    /\ ~sinkLog[1].ok
    /\ Len(tasks) = 2
    /\ tasks[1].failed
    /\ ~tasks[2].failed

\* no URL of the run's list matches a final page pattern
NoFinalInput ==
    /\ InputUrls # <<>>
    /\ \A i \in 1..Len(InputUrls), k \in 1..Len(final_page_patterns) :
          ~PatternSearch(final_page_patterns[k], InputUrls[i])

\* C17: when no input URL matches a final page pattern, run_dry_run and
\* run_full_scrape return a result with final_page_urls = 0: they do not
\* raise, make no fetch, start no worker and do not call the sink.
C17_NoFinalPagesNoDispatch ==
    (pc # "start" /\ NoFinalInput) =>
        /\ pc = "returned"
        /\ raised = None
        /\ summary.final_page_urls = 0
        /\ tasks = <<>>
        /\ results = <<>>
        /\ sinkLog = <<>>

\* a full run over two URLs, none a final page, has returned
C17_Witness ==
    /\ pc = "returned"
    /\ mode = "full"
    /\ NoFinalInput
    /\ Len(InputUrls) = 2
    /\ summary.total_urls = 2

\* the fields of the results, as the callers read them (run_scraper.py)
DryRunFields ==
    {"total_urls", "final_page_urls", "sample_scraped", "successful_samples",
     "sample_data"}

FullRunFields ==
    {"run_id", "total_urls", "final_page_urls", "scraped_records",
     "successful_scrapes", "saved_files"}

\* C18: every result of run_dry_run has total_urls, final_page_urls,
\* sample_scraped, successful_samples and sample_data, and every result of
\* run_full_scrape has run_id, total_urls, final_page_urls, scraped_records,
\* successful_scrapes and saved_files, on every returning path, the one for
\* an empty set of final pages included.
C18_ResultFields ==
    pc = "returned" =>
        IF mode = "dry" THEN DryRunFields \subseteq DOMAIN summary
                        ELSE FullRunFields \subseteq DOMAIN summary

\* no URLs were passed and no start URLs are configured
EmptyUrlSet ==
    /\ urlsArg = NoArg \/ urlsArg = Some(<<>>)
    /\ config.start_urls = <<>>

\* C19: run_dry_run and run_full_scrape fail with an explicit error when the
\* URL set is empty (no URLs passed and none configured), before any URL is
\* classified or fetched and before the sink is called; they raise that
\* error in no other case.
C19_EmptyUrlSetRaises ==
    /\ (pc # "start" /\ EmptyUrlSet) =>
          /\ pc = "raised"
          /\ raised = "ValueError"
          /\ final_urls = <<>>
          /\ tasks = <<>>
          /\ results = <<>>
          /\ sinkLog = <<>>
          /\ summary = NoSummary
    /\ raised = "ValueError" => EmptyUrlSet

\* a run that was passed the empty list, with no start URLs, has raised
C19_Witness ==
    /\ pc = "raised"
    /\ raised = "ValueError"
    /\ urlsArg = Some(<<>>)
    /\ config.start_urls = <<>>

----------------------------------------------------------------------------
\* run_dry_run over lists of up to MaxDryUrls URLs: SpecDry

InitDry ==
    /\ config \in {[BaseConfig EXCEPT !.save_html = h] : h \in BOOLEAN}
    /\ mode = "dry"
    /\ urlsArg \in {Some(l) : l \in SeqsUpTo(Urls, MaxDryUrls)}
    /\ pc = "start"
    /\ final_urls = <<>>
    /\ tasks = <<>>
    /\ results = <<>>
    /\ collected = {}
    /\ sinkLog = <<>>
    /\ summary = NoSummary
    /\ raised = None
    /\ RetryIdle
    /\ BreakerIdle
    /\ RateIdle
    /\ CallIdle
    /\ BackoffIdle
    /\ PoolIdle
    /\ TimeoutIdle

NextDry ==
    \/ Begin
    \/ \E i \in 1..Len(tasks) : StartTask(i)
    \/ \E i \in 1..Len(tasks) : FinishTask(i)
    \/ DryReturn

SpecDry == InitDry /\ [][NextDry]_vars

\* the final pages among the URLs a run was passed, in the order passed
PassedFinals ==
    LET urls == urlsArg[1]
        F[k \in 0..Len(urls)] ==
            IF k = 0 THEN <<>>
            ELSE IF \E p \in 1..Len(final_page_patterns) :
                        PatternSearch(final_page_patterns[p], urls[k])
                 THEN Append(F[k - 1], urls[k])
                 ELSE F[k - 1]
    IN F[Len(urls)]

HtmlSavers == {i \in 1..Len(tasks) : tasks[i].html # "none"}

\* C21: a dry run performs no file writes: in no execution of run_dry_run is
\* save_results, generate_summary_report or save_html called, whatever the
\* configuration, save_html = true included.
C21_DryRunWritesNothing ==
    mode = "dry" => (sinkLog = <<>> /\ HtmlSavers = {})

----------------------------------------------------------------------------
\* A run whose calls of scrape_url are followed fetch attempt by fetch
\* attempt, with the main thread and the pool's workers kept running:
\* SpecLive

\* what session.get may do with each URL of the runs
KindsOf ==
    [url \in Urls \cup TargetUrls |->
        IF CanSend(url) THEN GetKinds ELSE InvalidKinds]

\* make_request_with_retry() of task i invokes make_request(url) once more,
\* and session.get does kind
FetchStep(i, kind, msg) ==
    /\ pc = "scraping"
    /\ tasks[i].st = "running"
    /\ tasks[i].retry.status = "looping"
    /\ kind \in KindsOf[tasks[i].url]
    /\ tasks' = [tasks EXCEPT ![i].retry =
                    RetryStep(@, make_request(kind, msg),
                              RetryLimit(NoArg, config.max_retries))]
    /\ UNCHANGED <<config, mode, urlsArg, pc, final_urls, results, collected,
                   sinkLog, summary, raised, retryVars, breakerVars, rateVars,
                   callVars, backoffVars, poolVars, timeoutVars>>

\* the rest of scrape_url of task i, up to its return
FinishStep(i, parse, html) ==
    /\ pc = "scraping"
    /\ tasks[i].st = "running"
    /\ tasks[i].retry.status # "looping"
    /\ LET t == tasks[i]
           rec == ScrapeRecord(t.url, t.retry, parse, html, config.save_html)
       IN /\ tasks' = [tasks EXCEPT ![i] =
                 [@ EXCEPT !.st = "done", !.rec = rec,
                           !.failed = ScrapeFailed(t.retry, parse),
                           !.html = SaveHtmlCall(t.url, t.retry, parse, html,
                                                 config.save_html)]]
          /\ results' = AfterScrape(results, rec)
    /\ done_order' = AfterFinish(done_order, i)
    /\ UNCHANGED <<config, mode, urlsArg, pc, final_urls, collected, sinkLog,
                   summary, raised, retryVars, breakerVars, rateVars, callVars,
                   backoffVars, yield_first, timeoutVars>>

\* a run that is passed its URLs, under every retry limit and pool size
InitLive ==
    /\ config \in {[BaseConfig EXCEPT !.max_retries = m, !.concurrency_level = c] :
                      m \in 0..MaxRetriesBound, c \in 1..MaxConcurrency}
    /\ mode \in {"dry", "full"}
    /\ urlsArg \in {Some(l) : l \in SeqsUpTo(Urls, MaxUrls)}
    /\ pc = "start"
    /\ final_urls = <<>>
    /\ tasks = <<>>
    /\ results = <<>>
    /\ collected = {}
    /\ sinkLog = <<>>
    /\ summary = NoSummary
    /\ raised = None
    /\ RetryIdle
    /\ BreakerIdle
    /\ RateIdle
    /\ CallIdle
    /\ BackoffIdle
    /\ PoolIdle
    /\ TimeoutIdle

NextLive ==
    \/ Begin
    \/ \E i \in 1..Len(tasks) : StartTask(i)
    \/ \E i \in 1..Len(tasks), kind \in GetKinds \cup InvalidKinds, msg \in ExcMsgs :
          FetchStep(i, kind, msg)
    \/ \E i \in 1..Len(tasks), parse \in ParseOutcomes, html \in HtmlOutcomes :
          FinishStep(i, parse, html)
    \/ AsCompleted
    \/ \E i \in 1..Len(tasks) : Collect(i)
    \/ ScrapeReturned
    \/ \E ok \in BOOLEAN : SaveResults(ok)
    \/ \E ok \in BOOLEAN : ReportAndReturn(ok)
    \/ DryReturn

\* The main thread keeps running, the pool runs a submitted task as soon as
\* a worker is free, and every fetch attempt and every extraction terminates
SpecLive == InitLive /\ [][NextLive]_vars /\ WF_vars(NextLive)

\* the run returned its summary, or raised
Completed == pc \in {"returned", "raised"}

\* C27: if every fetch attempt and every extraction terminates, every
\* run_full_scrape and run_dry_run eventually completes (returns a summary,
\* or raises a setup or sink error), for every concurrency_level >= 1,
\* max_retries >= 0 and number of URLs: it never deadlocks and never stays
\* collecting forever, even if every URL fails.
C27_RunCompletes == <>Completed

\* a full run returned though both its URLs failed after max_retries + 1
\* fetch attempts each, on a pool with a single worker
C27_Witness ==
    /\ pc = "returned"
    /\ mode = "full"
    /\ config.concurrency_level = 1
    /\ config.max_retries >= 1
    /\ Len(tasks) = 2
    /\ \A i \in 1..Len(tasks) :
          /\ tasks[i].failed
          /\ tasks[i].retry.calls = config.max_retries + 1

----------------------------------------------------------------------------
\* Runs that are given URL lists with strings that are no valid URL:
\* SpecTargets

InitTargets ==
    /\ config \in {[BaseConfig EXCEPT !.concurrency_level = c] :
                      c \in 1..MaxConcurrency}
    /\ mode \in {"dry", "full"}
    /\ urlsArg \in {Some(l) : l \in SeqsUpTo(TargetUrls, MaxUrls)}
    /\ pc = "start"
    /\ final_urls = <<>>
    /\ tasks = <<>>
    /\ results = <<>>
    /\ collected = {}
    /\ sinkLog = <<>>
    /\ summary = NoSummary
    /\ raised = None
    /\ RetryIdle
    /\ BreakerIdle
    /\ RateIdle
    /\ CallIdle
    /\ BackoffIdle
    /\ PoolIdle
    /\ TimeoutIdle

SpecTargets == InitTargets /\ [][Next]_vars

\* url is a valid ScrapeTarget: its scheme is http or https and its host is
\* non-empty
IsScrapeTarget(url) ==
    LET parsed == urlparse(url) IN
    /\ ~parsed.raises
    /\ parsed.scheme \in {<<"http">>, <<"https">>}
    /\ HostOf(parsed.netloc) # <<>>

\* C25: every URL dispatched to a worker (fetched by scrape_url, in a dry
\* run or a full run) is a valid ScrapeTarget; an input URL that fails
\* validate_url is rejected before dispatch and never fetched.
C25_OnlyValidTargets ==
    /\ \A i \in 1..Len(tasks) : IsScrapeTarget(tasks[i].url)
    /\ \A k \in 1..Len(InputUrls) :
          ~validate_url(InputUrls[k]) =>
              \A i \in 1..Len(tasks) : tasks[i].url # InputUrls[k]

(***************************************************************************)
(* RetryHandler.circuit_breaker (retry_handler.py).  The decorator keeps   *)
(* its state in three attributes of the wrapped function; wrapper reads    *)
(* the clock once, on entry, and uses no lock.                             *)
(***************************************************************************)

\* line 68, mutated: the breaker recovers as soon as the timeout is reached
RecoveryElapsedAtTimeout(time, last, timeout) == time - last >= timeout

\* line 68: current_time - func._last_failure_time > recovery_timeout
RecoveryElapsed(time, last, timeout) == time - last > timeout

\* line 92: func._failures >= failure_threshold
ReachedThreshold(n, threshold) == n >= threshold

\* line 82: func._failures = 0
FailuresAfterSuccess(n) == 0

StreakCap == MaxThreshold + 1

MoreStreak(n) == IF n < StreakCap THEN n + 1 ELSE n

\* lines 58-60, and threads that have not called yet
InitBreakerOf(threads) ==
    /\ failure_threshold \in 1..MaxThreshold
    /\ recovery_timeout \in 0..MaxTimeout
    /\ state = "closed"
    /\ failures = 0
    /\ last_failure_time = 0
    /\ now = 0
    /\ callers = threads
    /\ cb_pc = [t \in threads |-> "idle"]
    /\ current_time = [t \in threads |-> 0]
    /\ read_failures = [t \in threads |-> 0]
    /\ trial = [t \in threads |-> FALSE]
    /\ outcome = [t \in threads |-> "none"]
    /\ streak = 0
    /\ failed_at = 0
    /\ config = BaseConfig
    /\ RunIdle
    /\ RetryIdle
    /\ RateIdle
    /\ CallIdle
    /\ BackoffIdle
    /\ PoolIdle
    /\ TimeoutIdle

InitBreakerSeq == InitBreakerOf({1})

InitBreaker == InitBreakerOf(1..NumThreads)

\* the wrapper's call ends for thread t, with a result or an exception
Leave(t, how) ==
    /\ cb_pc' = [cb_pc EXCEPT ![t] = "idle"]
    /\ outcome' = [outcome EXCEPT ![t] = how]
    /\ current_time' = [current_time EXCEPT ![t] = 0]
    /\ read_failures' = [read_failures EXCEPT ![t] = 0]
    /\ trial' = [trial EXCEPT ![t] = FALSE]
    /\ streak' = IF how = "returned" THEN 0 ELSE MoreStreak(streak)

\* line 64: current_time = time.time()
Enter(t) ==
    /\ cb_pc[t] = "idle"
    /\ failures < MaxFailures
    /\ current_time' = [current_time EXCEPT ![t] = now]
    /\ cb_pc' = [cb_pc EXCEPT ![t] = "check"]
    /\ UNCHANGED <<failure_threshold, recovery_timeout, state, failures,
                   last_failure_time, now, callers, read_failures, trial,
                   outcome, streak, failed_at, runVars, retryVars, rateVars,
                   callVars, backoffVars, poolVars, timeoutVars>>

\* lines 67-70: an open breaker whose timeout has passed becomes half-open
CheckRecovery(t) ==
    /\ cb_pc[t] = "check"
    /\ state' = IF /\ state = "open"
                   /\ RecoveryElapsed(current_time[t], last_failure_time,
                                      recovery_timeout)
                THEN "half-open"
                ELSE state
    /\ cb_pc' = [cb_pc EXCEPT ![t] = "gate"]
    /\ UNCHANGED <<failure_threshold, recovery_timeout, failures,
                   last_failure_time, now, callers, current_time,
                   read_failures, trial, outcome, streak, failed_at,
                   runVars, retryVars, rateVars, callVars, backoffVars,
                   poolVars, timeoutVars>>

\* lines 73-77: fail fast while open, call func otherwise
Gate(t) ==
    /\ cb_pc[t] = "gate"
    /\ IF state = "open"
       THEN Leave(t, "circuit-open")
       ELSE /\ cb_pc' = [cb_pc EXCEPT ![t] = "calling"]
            /\ trial' = [trial EXCEPT ![t] = (state = "half-open")]
            /\ UNCHANGED <<current_time, read_failures, outcome, streak>>
    /\ UNCHANGED <<failure_threshold, recovery_timeout, state, failures,
                   last_failure_time, now, callers, failed_at, runVars,
                   retryVars, rateVars, callVars, backoffVars, poolVars,
                   timeoutVars>>

\* lines 77-81, 85: func returned; a half-open breaker is closed
FuncReturns(t) ==
    /\ cb_pc[t] = "calling"
    /\ IF state = "half-open"
       THEN /\ state' = "closed"
            /\ cb_pc' = [cb_pc EXCEPT ![t] = "reset"]
            /\ UNCHANGED <<current_time, read_failures, trial, outcome, streak>>
       ELSE /\ Leave(t, "returned")
            /\ UNCHANGED state
    /\ UNCHANGED <<failure_threshold, recovery_timeout, failures,
                   last_failure_time, now, callers, failed_at, runVars,
                   retryVars, rateVars, callVars, backoffVars, poolVars,
                   timeoutVars>>

\* lines 82-85: the failure count is reset and the result returned
Reset(t) ==
    /\ cb_pc[t] = "reset"
    /\ failures' = FailuresAfterSuccess(failures)
    /\ Leave(t, "returned")
    /\ UNCHANGED <<failure_threshold, recovery_timeout, state,
                   last_failure_time, now, callers, failed_at, runVars,
                   retryVars, rateVars, callVars, backoffVars, poolVars,
                   timeoutVars>>

\* lines 77, 87-88: func raised; func._failures is read for  += 1
FuncRaises(t) ==
    /\ cb_pc[t] = "calling"
    /\ read_failures' = [read_failures EXCEPT ![t] = failures]
    /\ failed_at' = now
    /\ cb_pc' = [cb_pc EXCEPT ![t] = "count"]
    /\ UNCHANGED <<failure_threshold, recovery_timeout, state, failures,
                   last_failure_time, now, callers, current_time, trial,
                   outcome, streak, runVars, retryVars, rateVars, callVars,
                   backoffVars, poolVars, timeoutVars>>

\* line 88: func._failures is written
Count(t) ==
    /\ cb_pc[t] = "count"
    /\ failures' = read_failures[t] + 1
    /\ cb_pc' = [cb_pc EXCEPT ![t] = "stamp"]
    /\ UNCHANGED <<failure_threshold, recovery_timeout, state,
                   last_failure_time, now, callers, current_time,
                   read_failures, trial, outcome, streak, failed_at,
                   runVars, retryVars, rateVars, callVars, backoffVars,
                   poolVars, timeoutVars>>

\* line 89: func._last_failure_time = current_time
Stamp(t) ==
    /\ cb_pc[t] = "stamp"
    /\ last_failure_time' = current_time[t]
    /\ cb_pc' = [cb_pc EXCEPT ![t] = "trip"]
    /\ UNCHANGED <<failure_threshold, recovery_timeout, state, failures,
                   now, callers, current_time, read_failures, trial,
                   outcome, streak, failed_at, runVars, retryVars, rateVars,
                   callVars, backoffVars, poolVars, timeoutVars>>

\* lines 92-96: the breaker opens at the threshold; the exception is raised
Trip(t) ==
    /\ cb_pc[t] = "trip"
    /\ state' = IF ReachedThreshold(failures, failure_threshold)
                THEN "open"
                ELSE state
    /\ Leave(t, IF trial[t] THEN "trial raised" ELSE "raised")
    /\ UNCHANGED <<failure_threshold, recovery_timeout, failures,
                   last_failure_time, now, callers, failed_at, runVars,
                   retryVars, rateVars, callVars, backoffVars, poolVars,
                   timeoutVars>>

\* time.time() advances, also while func runs
Tick ==
    /\ callers # {}
    /\ now < MaxTime
    /\ now' = now + 1
    /\ UNCHANGED <<failure_threshold, recovery_timeout, state, failures,
                   last_failure_time, callers, cb_pc, current_time,
                   read_failures, trial, outcome, streak, failed_at,
                   runVars, retryVars, rateVars, callVars, backoffVars,
                   poolVars, timeoutVars>>

NextBreaker ==
    \/ \E t \in callers : Enter(t)
    \/ \E t \in callers : CheckRecovery(t)
    \/ \E t \in callers : Gate(t)
    \/ \E t \in callers : FuncReturns(t)
    \/ \E t \in callers : Reset(t)
    \/ \E t \in callers : FuncRaises(t)
    \/ \E t \in callers : Count(t)
    \/ \E t \in callers : Stamp(t)
    \/ \E t \in callers : Trip(t)
    \/ Tick

SpecBreakerSeq == InitBreakerSeq /\ [][NextBreaker]_vars

SpecBreaker == InitBreaker /\ [][NextBreaker]_vars

(***************************************************************************)
(* Claims about the circuit breaker.                                       *)
(***************************************************************************)

\* thread t's call ended with the circuit-open error; func was not called
FailsFast(t) == cb_pc[t] = "idle" /\ outcome[t] = "circuit-open"

\* thread t's call passes line 74 in this step
PassesGate(t) == cb_pc[t] = "gate" /\ cb_pc'[t] # "gate"

\* C7: a breaker with failure_threshold = n that starts closed is open after
\* n failed calls in a row, and the next call, made before recovery_timeout
\* has elapsed since the n-th failure, raises the circuit-open error and does
\* not call the wrapped function.
C7_OpensAndFailsFast ==
    [][\A t \in callers :
          /\ (cb_pc'[t] = "idle" /\ streak' = failure_threshold)
                => state' = "open"
          /\ ( /\ PassesGate(t)
               /\ streak = failure_threshold
               /\ current_time[t] - failed_at <= recovery_timeout )
                => FailsFast(t)'
      ]_vars

\* C8: while the breaker is open and now - last_failure_time <=
\* recovery_timeout, a call raises without calling the wrapped function and
\* leaves state, failures and last_failure_time as they were; a call with
\* now - last_failure_time > recovery_timeout makes the breaker half-open and
\* then calls the wrapped function.
C8_OpenWindow ==
    [][\A t \in callers :
          /\ ( /\ cb_pc[t] \in {"check", "gate"}
               /\ state = "open"
               /\ current_time[t] - last_failure_time <= recovery_timeout )
                => /\ UNCHANGED <<state, failures, last_failure_time>>
                   /\ cb_pc'[t] \in {"check", "gate", "idle"}
                   /\ cb_pc'[t] = "idle" => FailsFast(t)'
          /\ ( /\ cb_pc[t] = "check" /\ cb_pc'[t] # "check"
               /\ state = "open"
               /\ current_time[t] - last_failure_time > recovery_timeout )
                => state' = "half-open" /\ cb_pc'[t] = "gate"
          /\ (PassesGate(t) /\ state = "half-open")
                => cb_pc'[t] = "calling" /\ trial'[t]
      ]_vars

\* a call failed fast, and the same caller's next call, made after the
\* timeout, is in the wrapped function with the breaker half-open
C8_Witness ==
    \E t \in callers :
        /\ cb_pc[t] = "calling"
        /\ trial[t]
        /\ state = "half-open"
        /\ outcome[t] = "circuit-open"
        /\ Cardinality(callers) = 1

\* C9: once recovery_timeout has elapsed on an open breaker, one trial call
\* reaches the wrapped function; while it is in progress no other call, of
\* any thread, is let through to the wrapped function.
C9_OneTrialCall ==
    Cardinality({t \in callers : cb_pc[t] = "calling" /\ trial[t]}) <= 1

\* C10: a trial call (one let through by a half-open breaker) that returns
\* leaves failures = 0 and the breaker closed; a trial call that raises
\* leaves the breaker open with last_failure_time updated, and the next call
\* made within recovery_timeout of that failure raises the circuit-open
\* error and does not call the wrapped function.
C10_TrialCallOutcome ==
    [][\A t \in callers :
          /\ (trial[t] /\ cb_pc'[t] = "idle" /\ outcome'[t] = "returned")
                => state' = "closed" /\ failures' = 0
          /\ (trial[t] /\ cb_pc'[t] = "idle" /\ outcome'[t] = "trial raised")
                => state' = "open" /\ last_failure_time' = current_time[t]
          /\ ( /\ PassesGate(t)
               /\ outcome[t] = "trial raised"
               /\ current_time[t] - failed_at <= recovery_timeout )
                => FailsFast(t)'
      ]_vars

\* C30: in the closed state the breaker counts consecutive failures: it
\* becomes open only when the most recent failure_threshold calls of the
\* wrapped function all raised, so failures separated by a call that
\* returned do not add up to open it.
C30_OpensOnConsecutiveFailures ==
    [][(state = "closed" /\ state' = "open") => streak' >= failure_threshold]_vars

\* no call of the wrapped function is in progress
NoCallInProgress == \A t \in callers : cb_pc[t] = "idle"

\* C31: in every reachable state of a breaker with failure_threshold >= 1,
\* also when several workers call the wrapped function at the same time,
\* an open breaker has failures >= failure_threshold and a closed breaker
\* has failures < failure_threshold (stated here for the states between
\* calls, in which no caller is part-way through the wrapper).
C31_StateMatchesCount ==
    NoCallInProgress =>
        /\ state = "open" => failures >= failure_threshold
        /\ state = "closed" => failures < failure_threshold

(***************************************************************************)
(* SessionManager._rate_limit (session_manager.py).  The workers of the    *)
(* pool share one SessionManager; _rate_limit reads and writes             *)
(* self.last_request_time without a lock.  Time is counted in ticks, and a *)
(* second has so many ticks that 1.0 / concurrency_level is a whole number *)
(* of them for every configured level.                                     *)
(***************************************************************************)

RECURSIVE Factorial(_)
Factorial(n) == IF n <= 1 THEN 1 ELSE n * Factorial(n - 1)

TicksPerSecond == Factorial(MaxConcurrency)

\* line 57: min_delay = 1.0 / self.config.concurrency_level
min_delay(level) == TicksPerSecond \div level

\* time.time() when the first request is made: long after time 0, the
\* initial last_request_time (line 20)
StartTime == TicksPerSecond

ClockEnd == StartTime + 2 * TicksPerSecond

\* lines 56-60: sleep_time = min_delay - time_since_last if that is positive
SleepTime(current, last, delay) ==
    IF current - last < delay THEN delay - (current - last) ELSE 0

\* one SessionManager (line 20) and the pool's concurrency_level workers
InitRate ==
    /\ config \in {[BaseConfig EXCEPT !.concurrency_level = c] :
                      c \in 1..MaxConcurrency}
    /\ workers = 1..config.concurrency_level
    /\ last_request_time = 0
    /\ clock = StartTime
    /\ rl_pc = [w \in workers |-> "idle"]
    /\ rl_current_time = [w \in workers |-> 0]
    /\ sleep_time = [w \in workers |-> 0]
    /\ wake_at = [w \in workers |-> 0]
    /\ starts = <<>>
    /\ RunIdle
    /\ RetryIdle
    /\ BreakerIdle
    /\ CallIdle
    /\ BackoffIdle
    /\ PoolIdle
    /\ TimeoutIdle

\* lines 66-67, 55: make_request calls _rate_limit, which reads the clock
EnterRateLimit(w) ==
    /\ rl_pc[w] = "idle"
    /\ Len(starts) < MaxRequests
    /\ rl_current_time' = [rl_current_time EXCEPT ![w] = clock]
    /\ rl_pc' = [rl_pc EXCEPT ![w] = "read"]
    /\ UNCHANGED <<last_request_time, clock, workers, sleep_time, wake_at,
                   starts, runVars, retryVars, breakerVars, callVars,
                   backoffVars, poolVars, timeoutVars>>

\* lines 56-60: self.last_request_time is read and the wait computed
ReadLastRequest(w) ==
    /\ rl_pc[w] = "read"
    /\ sleep_time' = [sleep_time EXCEPT ![w] =
           SleepTime(rl_current_time[w], last_request_time,
                     min_delay(config.concurrency_level))]
    /\ rl_pc' = [rl_pc EXCEPT ![w] = "wait"]
    /\ UNCHANGED <<last_request_time, clock, workers, rl_current_time, wake_at,
                   starts, runVars, retryVars, breakerVars, callVars,
                   backoffVars, poolVars, timeoutVars>>

\* line 61: time.sleep(sleep_time) starts, if there is a wait
Sleep(w) ==
    /\ rl_pc[w] = "wait"
    /\ wake_at' = [wake_at EXCEPT ![w] = clock + sleep_time[w]]
    /\ rl_pc' = [rl_pc EXCEPT ![w] = "asleep"]
    /\ UNCHANGED <<last_request_time, clock, workers, rl_current_time,
                   sleep_time, starts, runVars, retryVars, breakerVars,
                   callVars, backoffVars, poolVars, timeoutVars>>

\* lines 61-63, 67-79: the sleep is over; self.last_request_time =
\* time.time(), _rate_limit returns and the request is sent
StartRequest(w) ==
    /\ rl_pc[w] = "asleep"
    /\ clock >= wake_at[w]
    /\ last_request_time' = clock
    /\ starts' = Append(starts, clock)
    /\ rl_pc' = [rl_pc EXCEPT ![w] = "idle"]
    /\ rl_current_time' = [rl_current_time EXCEPT ![w] = 0]
    /\ sleep_time' = [sleep_time EXCEPT ![w] = 0]
    /\ wake_at' = [wake_at EXCEPT ![w] = 0]
    /\ UNCHANGED <<clock, workers, runVars, retryVars, breakerVars, callVars,
                   backoffVars, poolVars, timeoutVars>>

\* time.time() advances
ClockTick ==
    /\ workers # {}
    /\ clock < ClockEnd
    /\ clock' = clock + 1
    /\ UNCHANGED <<last_request_time, workers, rl_pc, rl_current_time,
                   sleep_time, wake_at, starts, runVars, retryVars,
                   breakerVars, callVars, backoffVars, poolVars, timeoutVars>>

NextRate ==
    \/ \E w \in workers : EnterRateLimit(w)
    \/ \E w \in workers : ReadLastRequest(w)
    \/ \E w \in workers : Sleep(w)
    \/ \E w \in workers : StartRequest(w)
    \/ ClockTick

SpecRate == InitRate /\ [][NextRate]_vars

(***************************************************************************)
(* Claims about the rate limiter.                                          *)
(***************************************************************************)

\* C11: with one SessionManager and any number of workers, the starts of
\* any two consecutive requests are at least 1 / concurrency_level seconds
\* apart, in every interleaving.
C11_RequestsSpaced ==
    \A k \in 1..(Len(starts) - 1) :
        starts[k + 1] - starts[k] >= min_delay(config.concurrency_level)

\* the workers that have read last_request_time and not yet written it
BetweenReadAndWrite == {w \in workers : rl_pc[w] \in {"wait", "asleep"}}

\* C12: the read of last_request_time, the sleep and the write of the new
\* last_request_time are mutually exclusive: never are two workers between
\* the read and the write.
C12_RateLimitExclusive == Cardinality(BetweenReadAndWrite) <= 1

(***************************************************************************)
(* UrlHandler (url_handler.py): calls of is_final_page, filter_final_pages *)
(* and discover_urls on one handler, with one URL list.                    *)
(***************************************************************************)

MaxHandlerUrls == 3     \* longest URL list given to the handler (SpecUrl)
MaxCalls == 3           \* calls of filter_final_pages that are followed

\* def discover_urls(self, start_urls, max_depth: int = 2)
DefaultMaxDepth == 2

\* a final page whose pattern matches further down the path, and a page
\* whose /rule/ is followed by no digit
DeepRegUrl == Url(<<"home", "regulation", "1">>)
NearMissUrl == Url(<<"rule", "home">>)

HandlerUrls == Urls \cup {DeepRegUrl, NearMissUrl}

Range(f) == {f[i] : i \in DOMAIN f}

\* UrlHandler.__init__ (visited_urls is empty), and the list under test
InitUrl ==
    /\ visited_urls = {}
    /\ h_urls \in SeqsUpTo(HandlerUrls, MaxHandlerUrls)
    /\ h_calls = <<>>
    /\ h_out = [op |-> "none"]
    /\ v_url = NoArg
    /\ v_result = "none"
    /\ cfg_result = "none"
    /\ config = BaseConfig
    /\ RunIdle
    /\ RetryIdle
    /\ BreakerIdle
    /\ RateIdle
    /\ BackoffIdle
    /\ PoolIdle
    /\ TimeoutIdle

\* a call filter_final_pages(arg), again telling whether arg is the result
\* of the call before
FilterCall(arg, again) ==
    /\ Len(h_calls) < MaxCalls
    /\ h_calls' = Append(h_calls, [arg |-> arg, again |-> again,
                                   visited |-> visited_urls,
                                   result |-> filter_final_pages(arg)])
    /\ UNCHANGED <<visited_urls, h_urls, h_out, v_url, v_result, cfg_result,
                   runVars, retryVars, breakerVars, rateVars, backoffVars,
                   poolVars, timeoutVars>>

\* filter_final_pages(urls)
FilterFinalPages == FilterCall(h_urls, FALSE)

\* filter_final_pages(filter_final_pages(...))
FilterAgain ==
    /\ h_calls # <<>>
    /\ FilterCall(h_calls[Len(h_calls)].result, TRUE)

\* is_final_page(urls[k])
IsFinalPage(k) ==
    /\ h_out' = [op |-> "is_final_page", arg |-> h_urls[k],
                 result |-> is_final_page(h_urls[k])]
    /\ UNCHANGED <<visited_urls, h_urls, h_calls, v_url, v_result, cfg_result,
                   runVars, retryVars, breakerVars, rateVars, backoffVars,
                   poolVars, timeoutVars>>

\* the loop of discover_urls: its first pass visits every start URL and
\* leaves to_crawl empty, so that there is no second pass
Visited(visited, start_urls, max_depth) ==
    IF start_urls # <<>> /\ 0 < max_depth
    THEN visited \cup Range(start_urls)
    ELSE visited

\* discover_urls(urls, max_depth), which returns list(discovered): the
\* elements of set(start_urls), recorded here as that set
DiscoverUrls(max_depth) ==
    /\ visited_urls' = Visited(visited_urls, h_urls, max_depth)
    /\ h_out' = [op |-> "discover_urls", arg |-> h_urls,
                 result |-> Range(h_urls)]
    /\ UNCHANGED <<h_urls, h_calls, v_url, v_result, cfg_result,
                   runVars, retryVars, breakerVars, rateVars, backoffVars,
                   poolVars, timeoutVars>>

NextUrl ==
    \/ FilterFinalPages
    \/ FilterAgain
    \/ \E k \in 1..Len(h_urls) : IsFinalPage(k)
    \/ \E max_depth \in 0..DefaultMaxDepth : DiscoverUrls(max_depth)

SpecUrl == InitUrl /\ [][NextUrl]_vars

\* at least one configured pattern matches somewhere in url
MatchesSomePattern(url) ==
    \E word \in Range(final_page_patterns), i \in 1..(Len(url) - 3) :
        /\ SubSeq(url, i, i + 2) = <<"/", word, "/">>
        /\ url[i + 3] \in DigitSegments

\* the n-th smallest number of the set S
Nth(S, n) == CHOOSE k \in S : Cardinality({j \in S : j < k}) = n - 1

\* out is the subsequence of urls made of the URLs a pattern matches
IsFinalSubsequence(urls, out) ==
    LET keep == {k \in 1..Len(urls) : MatchesSomePattern(urls[k])} IN
    /\ Len(out) = Cardinality(keep)
    /\ \A i \in 1..Len(out) : out[i] = urls[Nth(keep, i)]

\* C22: filter_final_pages(urls) returns exactly the subsequence of urls, in
\* input order and keeping duplicates, of the URLs for which is_final_page is
\* true, and is_final_page(U) is true iff at least one configured pattern
\* matches somewhere in U; so the result is no longer than urls and each
\* returned URL satisfies is_final_page.
C22_FilterIsSubsequence ==
    /\ \A c \in Range(h_calls) :
          /\ IsFinalSubsequence(c.arg, c.result)
          /\ Len(c.result) <= Len(c.arg)
          /\ \A i \in 1..Len(c.result) : is_final_page(c.result[i])
    /\ \A k \in 1..Len(h_urls) :
          is_final_page(h_urls[k]) <=> MatchesSomePattern(h_urls[k])

\* filter_final_pages was given a final page twice, with another page in
\* between, and a page whose pattern matches further down the path
C22_Witness ==
    /\ h_calls # <<>>
    /\ h_urls \in {<<DeepRegUrl, NearMissUrl, DeepRegUrl>>,
                    <<DeepRegUrl, HomeUrl, DeepRegUrl>>}
    /\ h_calls[1].arg = h_urls
    /\ h_calls[1].result = <<DeepRegUrl, DeepRegUrl>>

\* C23: is_final_page and filter_final_pages change no state of the handler
\* (visited_urls in particular); repeating filter_final_pages on the same
\* list gives the same output in every state of the handler, also after
\* discover_urls has run; and filter_final_pages of its own output is that
\* output.
C23_ClassifierPure ==
    [][/\ (h_calls' # h_calls \/ (h_out' # h_out /\ h_out'.op = "is_final_page"))
             => visited_urls' = visited_urls
       /\ \A i, j \in 1..Len(h_calls') :
             h_calls'[i].arg = h_calls'[j].arg
                 => h_calls'[i].result = h_calls'[j].result
       /\ \A i \in 1..Len(h_calls') :
             h_calls'[i].again => h_calls'[i].result = h_calls'[i].arg
      ]_vars

\* the list was filtered before and after discover_urls visited its URLs,
\* and the output was filtered again
C23_Witness ==
    /\ Len(h_calls) = 3
    /\ h_calls[1].visited = {}
    /\ h_calls[2].visited # {}
    /\ h_calls[2].arg = h_urls
    /\ h_calls[2].result # <<>>
    /\ h_calls[2].result # h_urls
    /\ h_calls[3].again

(***************************************************************************)
(* UrlHandler.validate_url, called once, with every string of up to        *)
(* MaxUrlLen tokens and with None: SpecValidate.                           *)
(***************************************************************************)

MaxUrlLen == 6          \* longest string given to validate_url, in tokens

\* the tokens of the strings: two schemes, a run of letters, punctuation
UrlTokens == {"http", "ftp", "x", ":", "/", "@", "["}

\* the string urlparse works on: it decodes None to the empty string
UrlText(arg) == IF arg = NoArg THEN <<>> ELSE arg[1]

InitValidate ==
    /\ v_url \in {NoArg} \cup {Some(u) : u \in SeqsUpTo(UrlTokens, MaxUrlLen)}
    /\ v_result = "none"
    /\ visited_urls = {}
    /\ h_urls = <<>>
    /\ h_calls = <<>>
    /\ h_out = [op |-> "none"]
    /\ cfg_result = "none"
    /\ config = BaseConfig
    /\ RunIdle
    /\ RetryIdle
    /\ BreakerIdle
    /\ RateIdle
    /\ BackoffIdle
    /\ PoolIdle
    /\ TimeoutIdle

\* validate_url(url) returns True or False
ValidateUrl ==
    /\ v_result = "none"
    /\ v_result' = IF validate_url(UrlText(v_url)) THEN "True" ELSE "False"
    /\ UNCHANGED <<visited_urls, h_urls, h_calls, h_out, v_url, cfg_result,
                   runVars, retryVars, breakerVars, rateVars, backoffVars,
                   poolVars, timeoutVars>>

NextValidate == ValidateUrl

SpecValidate == InitValidate /\ [][NextValidate]_vars

\* arg is a string that parses as a URL with scheme http or https and a
\* non-empty host
IsHttpUrlWithHost(arg) ==
    /\ arg # NoArg
    /\ LET parsed == urlparse(arg[1]) IN
       /\ ~parsed.raises
       /\ parsed.scheme \in {<<"http">>, <<"https">>}
       /\ HostOf(parsed.netloc) # <<>>

\* C24: validate_url(url) returns true iff url parses as a URL whose scheme
\* is http or https and whose host is non-empty; for every other input (a
\* malformed string, an unsupported scheme, the empty string, an absent
\* value) it returns false, and it never raises.
C24_ValidateUrl ==
    v_result # "none" =>
        /\ v_result \in {"True", "False"}
        /\ v_result = "True" <=> IsHttpUrlWithHost(v_url)

(***************************************************************************)
(* Config.validate (config.py), called once on a configuration: SpecConfig *)
(***************************************************************************)

\* values of output_format: the three formats, another word, and none
OutputFormats == {"json", "csv", "both", "xml", ""}

\* the messages of the ValueError of each check, in the order of the checks
ValidateMessages ==
    <<"start_urls cannot be empty", "concurrency_level must be >= 1",
      "max_retries must be >= 0", "output_format must be 'json', 'csv', or 'both'">>

\* a validate that checks the output format first
validate_format_first(cfg) ==
    IF cfg.output_format \notin {"json", "csv", "both"} THEN ValidateMessages[4]
    ELSE IF cfg.start_urls = <<>> THEN ValidateMessages[1]
    ELSE IF cfg.concurrency_level < 1 THEN ValidateMessages[2]
    ELSE IF cfg.max_retries < 0 THEN ValidateMessages[3]
    ELSE "returned"

\* Config.validate: the message of the ValueError it raises, or "returned"
validate(cfg) ==
    IF cfg.start_urls = <<>> THEN ValidateMessages[1]
    ELSE IF cfg.concurrency_level < 1 THEN ValidateMessages[2]
    ELSE IF cfg.max_retries < 0 THEN ValidateMessages[3]
    ELSE IF cfg.output_format \notin {"json", "csv", "both"} THEN ValidateMessages[4]
    ELSE "returned"

\* a configuration as loaded, valid or not
InitConfig ==
    /\ config \in [max_retries : -1..MaxRetriesBound,
                    concurrency_level : -1..MaxConcurrency,
                    save_html : {FALSE},
                    start_urls : {<<>>, <<DocUrl>>},
                    output_format : OutputFormats]
    /\ cfg_result = "none"
    /\ visited_urls = {}
    /\ h_urls = <<>>
    /\ h_calls = <<>>
    /\ h_out = [op |-> "none"]
    /\ v_url = NoArg
    /\ v_result = "none"
    /\ RunIdle
    /\ RetryIdle
    /\ BreakerIdle
    /\ RateIdle
    /\ BackoffIdle
    /\ PoolIdle
    /\ TimeoutIdle

\* config.validate()
Validate ==
    /\ cfg_result = "none"
    /\ cfg_result' = validate(config)
    /\ UNCHANGED <<visited_urls, h_urls, h_calls, h_out, v_url, v_result,
                   runVars, retryVars, breakerVars, rateVars, backoffVars,
                   poolVars, timeoutVars>>

NextConfig == Validate

SpecConfig == InitConfig /\ [][NextConfig]_vars

\* the checks a configuration violates, numbered in the order of the claim
ViolatedChecks(cfg) ==
    {k \in 1..4 :
        \/ k = 1 /\ Len(cfg.start_urls) = 0
        \/ k = 2 /\ cfg.concurrency_level < 1
        \/ k = 3 /\ cfg.max_retries < 0
        \/ k = 4 /\ cfg.output_format \notin {"json", "csv", "both"}}

\* C29: Config.validate raises ValueError exactly when start_urls is empty,
\* concurrency_level < 1, max_retries < 0 or output_format is not one of
\* json, csv, both, the first violated check in that order giving the
\* message; otherwise it returns without raising; and in every case it
\* leaves the configuration unchanged.
C29_ValidateConfig ==
    [][cfg_result' # cfg_result =>
          /\ config' = config
          /\ cfg_result' = "returned" <=> ViolatedChecks(config) = {}
          /\ \A k \in ViolatedChecks(config) :
                (\A j \in ViolatedChecks(config) : k <= j)
                    => cfg_result' = ValidateMessages[k]
      ]_vars

\* validate raised for max_retries < 0 on a configuration whose output
\* format is wrong too
C29_Witness ==
    /\ cfg_result = ValidateMessages[3]
    /\ ViolatedChecks(config) = {3, 4}

(***************************************************************************)
(* The sleeps of the wrapper of RetryHandler.retry_on_failure              *)
(* (retry_handler.py): SpecBackoff.  Delays are counted in steps of        *)
(* 1 / JitterSteps of a second.                                            *)
(***************************************************************************)

MaxBaseDelay == 2       \* largest backoff_factor and retry_delay, in seconds
JitterSteps == 2        \* values random.uniform(0, 1) takes: j / JitterSteps

\* backoff_factor = backoff_factor or self.config.retry_delay
BackoffFactor(arg, cfg_retry_delay) ==
    IF arg # NoArg /\ arg[1] # 0 THEN arg[1] ELSE cfg_retry_delay

\* random.uniform(0, 1): 0 + (1 - 0) * random(), with random() in [0, 1)
Jitters == 0..(JitterSteps - 1)

\* delay = backoff_factor * (2 ** attempt) + random.uniform(0, 1)
BackoffDelay(backoff_factor, attempt, jitter) ==
    backoff_factor * (2 ^ attempt) * JitterSteps + jitter

InitBackoff ==
    /\ config \in {[BaseConfig EXCEPT !.max_retries = m] : m \in 0..MaxRetriesBound}
    /\ retry_delay \in 0..MaxBaseDelay
    /\ r_arg \in {NoArg} \cup {Some(m) : m \in 0..MaxRetriesBound}
    /\ backoff_arg \in {NoArg} \cup {Some(b) : b \in 0..MaxBaseDelay}
    /\ r_st = RetryStart
    /\ r_history = <<>>
    /\ sleeps = <<>>
    /\ w_url = RuleUrl
    /\ w_rec = NoRecord
    /\ RunIdle
    /\ BreakerIdle
    /\ RateIdle
    /\ CallIdle
    /\ PoolIdle
    /\ TimeoutIdle

\* one pass of the wrapper's loop: func is invoked and does o; if it raised
\* and the pass is not the last, the wrapper sleeps (lines 44-46)
InvokeAndSleep(o, jitter) ==
    /\ r_st.status = "looping"
    /\ LET st == RetryStep(r_st, o, RetryLimit(r_arg, config.max_retries)) IN
       /\ r_st' = st
       /\ sleeps' =
             IF st.status = "looping"
             THEN Append(sleeps,
                         [before |-> st.attempt,
                          delay |-> BackoffDelay(
                                       BackoffFactor(backoff_arg, retry_delay),
                                       r_st.attempt, jitter)])
             ELSE sleeps
    /\ r_history' = Append(r_history, [kind |-> "func", raises |-> o.raises, val |-> o.val])
    /\ UNCHANGED <<runVars, breakerVars, rateVars, r_arg, w_url, w_rec, callVars,
                   retry_delay, backoff_arg, poolVars, timeoutVars>>

NextBackoff == \E o \in FuncOutcomes, jitter \in Jitters : InvokeAndSleep(o, jitter)

SpecBackoff == InitBackoff /\ [][NextBackoff]_vars

\* the base delay of the wrapper: the one passed to it, or the configured
\* one when none is passed
BaseDelay == IF backoff_arg # NoArg THEN backoff_arg[1] ELSE retry_delay

\* C32: the sleep before retry attempt k (attempts 0-indexed, k >= 1) is
\* baseDelay * 2^(k-1) plus a jitter in [0, 1), for every baseDelay >= 0
\* passed to the wrapper; exactly one sleep precedes each retry, and no
\* sleep occurs after the final failed attempt or after a success.
C32_BackoffDelays ==
    /\ \A k \in 1..Len(sleeps) :
          /\ sleeps[k].before = k
          /\ sleeps[k].delay - BaseDelay * (2 ^ (k - 1)) * JitterSteps \in Jitters
    /\ r_st.status = "looping" => Len(sleeps) = Len(r_history)
    /\ r_st.status # "looping" => Len(sleeps) = Len(r_history) - 1

(***************************************************************************)
(* RetryHandler.timeout_handler (retry_handler.py): calls of wrapped       *)
(* functions in one process, on its main thread and nested in one another, *)
(* and from a worker thread: SpecTimeout.  A process has one alarm and one *)
(* SIGALRM handler.                                                        *)
(***************************************************************************)

MaxSeconds == 2         \* largest timeout_seconds of a wrapper
MaxElapsed == 3         \* the clock of SpecTimeout stops here
MaxWrapped == 3         \* wrapper calls followed on the main thread

InitTimeout ==
    /\ TimeoutIdle
    /\ config = BaseConfig
    /\ RunIdle
    /\ RetryIdle
    /\ BreakerIdle
    /\ RateIdle
    /\ CallIdle
    /\ BackoffIdle
    /\ PoolIdle

\* signal.alarm(seconds): the alarm replaces the pending one; alarm(0) only
\* cancels it
Alarm(seconds, time) == IF seconds = 0 THEN NoArg ELSE Some(time + seconds)

\* lines 112-113, on the main thread (from the program, or from inside a
\* wrapped function that is running): the wrapper installs its handler,
\* keeps the one that was installed, and sets the alarm
CallWrapped(timeout_seconds) ==
    /\ t_exc = None
    /\ Len(t_frames) + Len(t_done) < MaxWrapped
    /\ t_frames' = Append(t_frames, [timeout_seconds |-> timeout_seconds,
                                     old_handler |-> t_handler,
                                     start |-> t_now])
    /\ t_handler' = Len(t_frames) + 1
    /\ t_alarm' = Alarm(timeout_seconds, t_now)
    /\ UNCHANGED <<t_now, t_exc, t_done, t_worker, runVars, retryVars,
                   breakerVars, rateVars, callVars, backoffVars, poolVars>>

\* the finally block of the innermost wrapper call (lines 118-121): the
\* alarm is cancelled and the kept handler installed again
Leave_timeout(how) ==
    LET top == t_frames[Len(t_frames)] IN
    /\ t_alarm' = Alarm(0, t_now)
    /\ t_handler' = top.old_handler
    /\ t_frames' = SubSeq(t_frames, 1, Len(t_frames) - 1)
    /\ t_done' = Append(t_done, [timeout_seconds |-> top.timeout_seconds,
                                 ran |-> t_now - top.start, how |-> how])

\* lines 115-117: the innermost wrapped function returns
FuncReturned ==
    /\ t_frames # <<>>
    /\ t_exc = None
    /\ Leave_timeout("returned")
    /\ UNCHANGED <<t_now, t_exc, t_worker, runVars, retryVars, breakerVars,
                   rateVars, callVars, backoffVars, poolVars>>

\* the alarm is due: SIGALRM is sent, and the installed handler, run on the
\* main thread, raises TimeoutError in whatever is running there (line 109)
AlarmRings ==
    /\ t_alarm # NoArg
    /\ t_now >= t_alarm[1]
    /\ t_handler # 0
    /\ t_exc = None
    /\ t_exc' = "TimeoutError"
    /\ t_alarm' = NoArg
    /\ UNCHANGED <<t_now, t_handler, t_frames, t_done, t_worker, runVars,
                   retryVars, breakerVars, rateVars, callVars, backoffVars,
                   poolVars>>

\* the exception leaves the innermost wrapped function and its wrapper
Unwind ==
    /\ t_frames # <<>>
    /\ t_exc # None
    /\ Leave_timeout(t_exc)
    /\ t_exc' = IF Len(t_frames) = 1 THEN None ELSE t_exc
    /\ UNCHANGED <<t_now, t_worker, runVars, retryVars, breakerVars,
                   rateVars, callVars, backoffVars, poolVars>>

\* a second passes while a wrapped function runs; an alarm that is due is
\* delivered first
Second ==
    /\ t_frames # <<>>
    /\ t_exc = None
    /\ t_now < MaxElapsed
    /\ t_alarm # NoArg => t_now < t_alarm[1]
    /\ t_now' = t_now + 1
    /\ UNCHANGED <<t_alarm, t_handler, t_frames, t_exc, t_done, t_worker,
                   runVars, retryVars, breakerVars, rateVars, callVars,
                   backoffVars, poolVars>>

\* line 112 on a thread of the pool: signal.signal raises ValueError outside
\* the main thread, before the alarm is set and before func is called
CallOnWorker ==
    /\ t_worker = "none"
    /\ t_worker' = "ValueError"
    /\ UNCHANGED <<t_now, t_alarm, t_handler, t_frames, t_exc, t_done,
                   runVars, retryVars, breakerVars, rateVars, callVars,
                   backoffVars, poolVars>>

NextTimeout ==
    \/ \E timeout_seconds \in 1..MaxSeconds : CallWrapped(timeout_seconds)
    \/ FuncReturned
    \/ AlarmRings
    \/ Unwind
    \/ Second
    \/ CallOnWorker

SpecTimeout == InitTimeout /\ [][NextTimeout]_vars

\* C36: an operation wrapped by timeout_handler(d) that runs longer than d
\* seconds is always interrupted with a timeout failure, also when another
\* timeout-wrapped operation starts and finishes while it is running: no
\* wrapped operation is still running, and none has returned, more than d
\* seconds after it started.
C36_TimeoutInterrupts ==
    /\ \A k \in 1..Len(t_frames) :
          t_now - t_frames[k].start <= t_frames[k].timeout_seconds
    /\ \A k \in 1..Len(t_done) :
          t_done[k].how = "returned" => t_done[k].ran <= t_done[k].timeout_seconds

(***************************************************************************)
(* UrlHandler.get_domain, called once, with every string of up to          *)
(* MaxUrlLen tokens and with None: SpecDomain.                             *)
(***************************************************************************)

\* get_domain: urlparse(url).netloc, and None when urlparse raises; None is
\* NoArg here and a string s is Some(s)
get_domain(url) ==
    LET parsed == urlparse(UrlText(url)) IN
    IF parsed.raises THEN NoArg ELSE Some(parsed.netloc)

InitDomain ==
    /\ v_url \in {NoArg} \cup {Some(u) : u \in SeqsUpTo(UrlTokens, MaxUrlLen)}
    /\ v_result = "none"
    /\ visited_urls = {}
    /\ h_urls = <<>>
    /\ h_calls = <<>>
    /\ h_out = [op |-> "none"]
    /\ cfg_result = "none"
    /\ config = BaseConfig
    /\ RunIdle
    /\ RetryIdle
    /\ BreakerIdle
    /\ RateIdle
    /\ BackoffIdle
    /\ PoolIdle
    /\ TimeoutIdle

\* get_domain(url) returns a string or None
GetDomain ==
    /\ h_out.op = "none"
    /\ h_out' = [op |-> "get_domain", arg |-> v_url, result |-> get_domain(v_url)]
    /\ UNCHANGED <<visited_urls, h_urls, h_calls, v_url, v_result, cfg_result,
                   runVars, retryVars, breakerVars, rateVars, backoffVars,
                   poolVars, timeoutVars>>

NextDomain == GetDomain

SpecDomain == InitDomain /\ [][NextDomain]_vars

\* the host of a network location with its port, without the user part
HostAndPort(netloc) == SubSeq(netloc, LastIndex(netloc, "@") + 1, Len(netloc))

\* arg is a string that parses as a URL with a non-empty host
IsUrlWithHost(arg) ==
    /\ arg # NoArg
    /\ LET parsed == urlparse(arg[1]) IN
       ~parsed.raises /\ HostOf(parsed.netloc) # <<>>

\* C37: get_domain(url) returns the host (with port, if any) of a URL that
\* has one, and returns None, without raising, for every input that is not
\* a URL with a host ('not-a-url', the empty string, an absent value).
C37_GetDomain ==
    h_out.op = "get_domain" =>
        IF IsUrlWithHost(h_out.arg)
        THEN h_out.result = Some(HostAndPort(urlparse(h_out.arg[1]).netloc))
        ELSE h_out.result = NoArg

====
